---- MODULE Spec2Model ----
(***************************************************************************)
(* Record reconciliation engine of the LWS Terraform provider.             *)
(*                                                                         *)
(*   - the HTTP client (internal/client/client.go, second unit of the      *)
(*     file: LWSClient with retries, delay, backoff and a mutex);          *)
(*   - the lws_dns_record resource (the resource unit carried in           *)
(*     internal/provider/README_TESTS.md from line 153 on: Create, Read,   *)
(*     Update, Delete, ImportState);                                       *)
(*   - the remote LWS API as the test servers of the repository play it.   *)
(*                                                                         *)
(* Strings whose case or whitespace matters (names, types, values, zones,  *)
(* identifiers kept in Terraform state) are sequences of one-character     *)
(* strings.  Error texts are sequences of words.                           *)
(***************************************************************************)
EXTENDS Integers, Sequences, FiniteSets, TLC

VARIABLES
    zone,      \* remote: the records of the DNS zone, in listing order
    nextId,    \* remote: the next identifier the remote hands out
    tf,        \* Terraform state of the managed record, or NoState
    last,      \* what the last resource operation was given and what it did
    cfg,       \* the client's retry configuration [retries, delay, backoff]
    mIn,       \* identity matcher: the two (name, type) pairs under comparison
    mOut,      \* identity matcher: the verdicts of every comparison site
    mu,        \* concurrent client: the holder of LWSClient.mu, or Unlocked
    call,      \* concurrent client: per goroutine, the state of its makeRequest
    wire,      \* concurrent client: the attempts sent, in order
    trail,     \* lifecycle: the tracked record after each step of the sequence
    ops        \* concurrent operations: per goroutine, its handler's position

vars == <<zone, nextId, tf, last, cfg, mIn, mOut, mu, call, wire, trail, ops>>

(***************************************************************************)
(* Bounds                                                                  *)
(***************************************************************************)
MaxNameLen == 2
MaxTypeLen == 1
MaxRetries == 1
MaxId == 2
MaxCalls == 2
MaxWaits == 2

(***************************************************************************)
(* strings.ToLower, strings.ToUpper, strings.TrimSpace                     *)
(***************************************************************************)
Lowers == <<"a", "m", "w", "z">>
Uppers == <<"A", "M", "W", "Z">>

ToLowerChar(c) ==
    IF \E i \in DOMAIN Uppers : Uppers[i] = c
    THEN Lowers[CHOOSE i \in DOMAIN Uppers : Uppers[i] = c]
    ELSE c

ToUpperChar(c) ==
    IF \E i \in DOMAIN Lowers : Lowers[i] = c
    THEN Uppers[CHOOSE i \in DOMAIN Lowers : Lowers[i] = c]
    ELSE c

ToLower(s) == [i \in DOMAIN s |-> ToLowerChar(s[i])]
ToUpper(s) == [i \in DOMAIN s |-> ToUpperChar(s[i])]

RECURSIVE TrimLeft(_)
TrimLeft(s) ==
    IF s # <<>> /\ Head(s) = " " THEN TrimLeft(Tail(s)) ELSE s

RECURSIVE TrimRight(_)
TrimRight(s) ==
    IF s # <<>> /\ s[Len(s)] = " " THEN TrimRight(SubSeq(s, 1, Len(s) - 1)) ELSE s

TrimSpace(s) == TrimRight(TrimLeft(s))

(***************************************************************************)
(* The identity comparison, as each place of the code writes it.           *)
(* `want` is the desired or tracked (name, type), `have` a remote record.  *)
(***************************************************************************)
\* The search with the case folded on the remote record's side only.
CreateSearchMatchOneSided(want, have) ==
    /\ ToLower(TrimSpace(have.name)) = TrimSpace(want.name)
    /\ ToUpper(TrimSpace(have.type)) = TrimSpace(want.type)

\* Create, initial conflict search: both sides lower/upper-cased and trimmed.
CreateSearchMatch(want, have) ==
    /\ ToLower(TrimSpace(have.name)) = ToLower(TrimSpace(want.name))
    /\ ToUpper(TrimSpace(have.type)) = ToUpper(TrimSpace(want.type))

\* Create, search repeated after a create conflict: normalized or exact.
FallbackSearchMatch(want, have) ==
    \/ /\ ToLower(TrimSpace(have.name)) = ToLower(TrimSpace(want.name))
       /\ ToUpper(TrimSpace(have.type)) = ToUpper(TrimSpace(want.type))
    \/ /\ have.name = want.name
       /\ have.type = want.type

\* Read, both drift-recovery searches: exact comparison.
ReadSearchMatch(want, have) ==
    have.name = want.name /\ have.type = want.type

\* The identifier discovery by the name alone.
FindByNameMatchAnyType(want, have) == have.name = want.name

\* Client, identifier discovery after a create: exact comparison.
FindByNameMatch(want, have) ==
    have.name = want.name /\ have.type = want.type

\* The comparison with the case folded but the blanks left in.
IdentityMatchUntrimmed(a, b) ==
    ToLower(b.name) = ToLower(a.name) /\ ToUpper(b.type) = ToUpper(a.type)

\* The identity matcher: name lower-cased and trimmed, type upper-cased and
\* trimmed, both equal.
IdentityMatch(a, b) ==
    LET targetNameNorm   == ToLower(TrimSpace(a.name))
        targetTypeNorm   == ToUpper(TrimSpace(a.type))
        existingNameNorm == ToLower(TrimSpace(b.name))
        existingTypeNorm == ToUpper(TrimSpace(b.type))
    IN  existingNameNorm = targetNameNorm /\ existingTypeNorm = targetTypeNorm

(***************************************************************************)
(* Error texts: sequences of words.  strings.ToLower and strings.Contains  *)
(* work word by word.                                                      *)
(***************************************************************************)
CapitalWords == <<"Record", "Cannot", "Zone", "Invalid", "Internal", "DNS", "ID", "API", "HTTP", "NOT", "FOUND", "RECORD">>
LowerWords   == <<"record", "cannot", "zone", "invalid", "internal", "dns", "id", "api", "http", "not", "found", "record">>

ToLowerWord(x) ==
    IF \E i \in DOMAIN CapitalWords : CapitalWords[i] = x
    THEN LowerWords[CHOOSE i \in DOMAIN CapitalWords : CapitalWords[i] = x]
    ELSE x

ToLowerText(t) == [i \in DOMAIN t |-> ToLowerWord(t[i])]

Contains(t, phrase) ==
    \E i \in 0..(Len(t) - Len(phrase)) : SubSeq(t, i + 1, i + Len(phrase)) = phrase

NoErr == <<>>

\* What the remote writes in the `info` field of its answers.
InfoCreated       == <<"DNS", "record", "created">>
InfoUpdated       == <<"DNS", "record", "updated">>
InfoDeleted       == <<"DNS", "record", "deleted">>
InfoFetched       == <<"Fetched", "DNS", "Zone">>
InfoRecordMissing == <<"Record", "not", "found">>
InfoConflict      == <<"Cannot", "add", "record", "to", "the", "DNS", "Zone", ".", "Record", "invalid", ".">>
\* A refusal of a duplicate in other words than the remote of the tests uses.
InfoConflictReworded == <<"Invalid", "record", ":", "name", "taken">>
InfoInvalidZone   == <<"Invalid", "zone">>
InfoServerError   == <<"Internal", "server", "error">>

\* No create error taken for a conflict.
IsConflictErrorNever(err) == FALSE

\* Create: does the create error indicate that the record already exists?
IsConflictError(err) ==
    LET errorMsg == ToLowerText(err)
    IN  \/ Contains(errorMsg, <<"cannot", "add", "record">>)
        \/ Contains(errorMsg, <<"record", "invalid">>)
        \/ Contains(errorMsg, <<"already", "exists">>)
        \/ Contains(errorMsg, <<"duplicate">>)

\* Read: is the lookup error a "not found" error?
IsReadNotFound(err) ==
    LET errorMsg == ToLowerText(err)
    IN  \/ Contains(errorMsg, <<"not", "found">>)
        \/ Contains(errorMsg, <<"record", "with", "id">>)

\* The not-found phrasing under which a deletion is to count as done.
IsNotFoundError(err) ==
    LET errorMsg == ToLowerText(err)
    IN  \/ Contains(errorMsg, <<"not", "found">>)
        \/ Contains(errorMsg, <<"does", "not", "exist">>)
        \/ Contains(errorMsg, <<"record", "with", "id">>)
        \/ Contains(errorMsg, <<"no", "record", "found">>)
        \/ Contains(errorMsg, <<"record", "not", "found">>)
        \/ Contains(errorMsg, <<"invalid", "record", "id">>)
        \/ Contains(errorMsg, <<"record", "id", "not", "found">>)

(***************************************************************************)
(* strconv.Atoi and fmt.Sprintf("%d") on identifiers kept as strings.      *)
(***************************************************************************)
Digits == <<"0", "1", "2", "3", "4", "5", "6", "7", "8", "9">>

IsDigit(c) == \E i \in DOMAIN Digits : Digits[i] = c
DigitVal(c) == (CHOOSE i \in DOMAIN Digits : Digits[i] = c) - 1

RECURSIVE DigitsVal(_, _)
DigitsVal(s, acc) ==
    IF s = <<>> THEN acc ELSE DigitsVal(Tail(s), acc * 10 + DigitVal(Head(s)))

\* [ok, n]: ok is FALSE where Atoi returns an error.
Atoi(s) ==
    LET signed == s # <<>> /\ Head(s) \in {"+", "-"}
        body   == IF signed THEN Tail(s) ELSE s
        valid  == body # <<>> /\ \A i \in DOMAIN body : IsDigit(body[i])
        mag    == IF valid THEN DigitsVal(body, 0) ELSE 0
    IN  [ok |-> valid, n |-> IF signed /\ Head(s) = "-" THEN 0 - mag ELSE mag]

RECURSIVE NatToStr(_)
NatToStr(n) ==
    IF n < 10 THEN <<Digits[n + 1]>> ELSE NatToStr(n \div 10) \o <<Digits[(n % 10) + 1]>>

Itoa(n) == IF n < 0 THEN <<"-">> \o NatToStr(0 - n) ELSE NatToStr(n)

(***************************************************************************)
(* The remote API.  It hosts one zone, ZoneName; `w` is the world a        *)
(* resource operation runs in: [zone, nextId, fq, sent], where fq is the   *)
(* queue of faults that hit the coming attempts and sent the log of the    *)
(* attempts made so far.  `q` says how the remote words its answers:       *)
(* [mirror, rejectDup, echoId, listIds, reworded, folds].                  *)
(***************************************************************************)
ZoneName == <<"z">>

\* The zone as the remote spells it in the records it echoes.
EchoZone == <<"Z">>

SeqsUpTo(S, n) == UNION {[1..k -> S] : k \in 0..n}

SeqIndex(seq, P(_)) == {i \in DOMAIN seq : P(seq[i])}
FirstIndex(seq, P(_)) ==
    CHOOSE i \in SeqIndex(seq, P) : \A j \in SeqIndex(seq, P) : i <= j
RemoveAt(seq, i) == SubSeq(seq, 1, i - 1) \o SubSeq(seq, i + 1, Len(seq))

HasId(recs, id) == \E i \in DOMAIN recs : recs[i].id = id
IndexOfId(recs, id) == CHOOSE i \in DOMAIN recs : recs[i].id = id

\* A semantic refusal: HTTP status mirrors the application code or is 200.
Refusal(w, q, code, info) ==
    [zone |-> w.zone, nextId |-> w.nextId,
     status |-> IF q.mirror THEN code ELSE 200,
     code |-> code, info |-> info, data |-> <<>>]

\* The remote handles one request that reached it.
Serve(w, q, req) ==
    IF req.zoneName # ZoneName THEN Refusal(w, q, 400, InfoInvalidZone)
    ELSE IF req.method = "GET" THEN
        [zone |-> w.zone, nextId |-> w.nextId, status |-> 200, code |-> 200,
         info |-> InfoFetched,
         data |-> IF q.listIds THEN w.zone
                  ELSE [i \in DOMAIN w.zone |-> [w.zone[i] EXCEPT !.id = 0]]]
    ELSE IF req.method = "POST" THEN
        IF q.rejectDup /\ \E i \in DOMAIN w.zone : IdentityMatch(req, w.zone[i])
        THEN Refusal(w, q, 400, IF q.reworded THEN InfoConflictReworded ELSE InfoConflict)
        ELSE [zone |-> Append(w.zone, [id |-> w.nextId,
                                       name |-> IF q.folds THEN ToLower(req.name)
                                                ELSE req.name,
                                       type |-> req.type,
                                       value |-> req.value, ttl |-> req.ttl]),
              nextId |-> w.nextId + 1, status |-> 200, code |-> 200, info |-> InfoCreated,
              data |-> [id |-> 0, name |-> req.name, type |-> req.type,
                        value |-> req.value, ttl |-> req.ttl, zone |-> EchoZone]]
    ELSE IF req.method = "PUT" THEN
        IF ~HasId(w.zone, req.id) THEN Refusal(w, q, 404, InfoRecordMissing)
        ELSE [zone |-> [w.zone EXCEPT ![IndexOfId(w.zone, req.id)] =
                            [id |-> req.id, name |-> req.name, type |-> req.type,
                             value |-> req.value, ttl |-> req.ttl]],
              nextId |-> w.nextId, status |-> 200, code |-> 200, info |-> InfoUpdated,
              data |-> [id |-> IF q.echoId THEN req.id ELSE 0, name |-> req.name,
                        type |-> req.type, value |-> req.value, ttl |-> req.ttl,
                        zone |-> EchoZone]]
    ELSE \* DELETE
        IF ~HasId(w.zone, req.id) THEN Refusal(w, q, 404, InfoRecordMissing)
        ELSE [zone |-> RemoveAt(w.zone, IndexOfId(w.zone, req.id)),
              nextId |-> w.nextId, status |-> 200, code |-> 200, info |-> InfoDeleted,
              data |-> <<>>]

(***************************************************************************)
(* LWSClient.makeRequest                                                   *)
(*                                                                         *)
(* Only({e(x) : x \in {v}}) reads LET x == v IN e(x), with v evaluated     *)
(* once: the result of a call is bound before it is inspected.             *)
(***************************************************************************)
Only(S) == CHOOSE x \in S : TRUE

HasBody(req) == req.method # "GET"

\* Response bodies that are no JSON, as sequences of their parts: the
\* challenge page of the protection layer in front of the API, the page it
\* shows when the API behind it gave no valid answer, and a plain text.
BodyChallenge == <<"<!DOCTYPE html>", "<html", "Just a moment...">>
BodyUpstream  == <<"<html", "Invalid response from upstream server">>
BodyText      == <<"Bad", "Gateway">>

\* An answer that never reached the remote: [err, status, code, info, data,
\* json, raw, zone, nextId, read].  `json` says that the body parses as the
\* API's envelope [code, info, data]; `raw` is the body that does not, <<>>
\* for an empty one.
Unserved(w, err, status, raw, read) ==
    [err |-> err, status |-> status, code |-> 0, info |-> <<>>, data |-> <<>>,
     json |-> FALSE, raw |-> raw, zone |-> w.zone, nextId |-> w.nextId, read |-> read]

\* The request's body read anew by every attempt.
BodyRewound(req, drained) == FALSE

\* req.Body is the one buffer made before the loop: an attempt that follows
\* one which read it finds it at its end.
BodySpent(req, drained) == HasBody(req) /\ drained

\* An answer of the remote that does not reach the client as sent: the
\* request is served, and the client sees `err` or the status `status`.
Applied(w, q, req, err, status) ==
    Only({[err |-> err, status |-> status, code |-> IF err THEN 0 ELSE status,
           info |-> IF err THEN <<>> ELSE InfoServerError, data |-> <<>>,
           json |-> ~err, raw |-> <<>>, zone |-> a.zone, nextId |-> a.nextId,
           read |-> TRUE] :
          a \in {Serve(w, q, req)}})

\* One c.client.Do(req).  A request whose body buffer an earlier attempt has
\* read cannot be written again: the transport fails it before it reaches the
\* remote.  Faults: "neterr" no connection, "h500" an answer of status 500 in
\* place of the remote's, "late500" the same after the remote served the
\* request, "lost" the remote served the request and its answer was lost,
\* "code201" the remote served the request and answers with HTTP status 200
\* and the application code 201.
Do(w, q, req, fault, drained) ==
    IF BodySpent(req, drained) THEN Unserved(w, TRUE, 0, <<>>, TRUE)
    ELSE IF fault = "lost" THEN Applied(w, q, req, TRUE, 0)
    ELSE IF fault = "late500" THEN Applied(w, q, req, FALSE, 500)
    ELSE IF fault = "code201"
         THEN [Applied(w, q, req, FALSE, 200) EXCEPT !.code = 201, !.info = InfoDeleted]
    ELSE IF fault = "neterr" THEN Unserved(w, TRUE, 0, <<>>, FALSE)
    ELSE IF fault = "h500" THEN
        [err |-> FALSE, status |-> 500, code |-> 500, info |-> InfoServerError, data |-> <<>>,
         json |-> TRUE, raw |-> <<>>, zone |-> w.zone, nextId |-> w.nextId, read |-> TRUE]
    ELSE IF fault = "h304" THEN Unserved(w, FALSE, 304, <<>>, TRUE)
    ELSE IF fault = "html200" THEN Unserved(w, FALSE, 200, BodyChallenge, TRUE)
    ELSE IF fault = "html503" THEN Unserved(w, FALSE, 503, BodyUpstream, TRUE)
    ELSE IF fault = "text200" THEN Unserved(w, FALSE, 200, BodyText, TRUE)
    ELSE
        Only({[err |-> FALSE, status |-> a.status, code |-> a.code, info |-> a.info,
               data |-> a.data, json |-> TRUE, raw |-> <<>>,
               zone |-> a.zone, nextId |-> a.nextId, read |-> TRUE] :
              a \in {Serve(w, q, req)}})

\* The loop ended by 2xx statuses only.
AttemptSucceeded2xx(att) == ~att.err /\ att.status >= 200 /\ att.status < 300

\* The attempt ends the retry loop with a usable response.
AttemptSucceeded(att) == ~att.err /\ att.status < 400

\* The retry test off by one.
RetryAllowedInclusive(retry, retries) == retry <= retries

\* After a failed attempt: is another attempt made?
RetryAllowed(retry, retries) == retry < retries

\* The delay grown by addition.
NextDelayAdditive(delay, backoff) == delay + backoff

\* delay *= c.backoff
NextDelay(delay, backoff) == delay * backoff

\* What req.Body yields to the attempt: nothing for a request built without
\* a body, the marshalled JSON on the buffer's first reading, nothing more
\* once an attempt has read the buffer.
BodyWritten(req, drained) ==
    IF ~HasBody(req) THEN "none" ELSE IF BodySpent(req, drained) THEN "empty" ELSE "json"

\* The world after an attempt: the effect on the remote, the fault consumed,
\* the attempt logged as [method, id, attempt, wait, status, code, json, raw,
\* body].
Sent(w, req, st, att) ==
    [zone |-> att.zone, nextId |-> att.nextId,
     fq |-> IF w.fq = <<>> THEN <<>> ELSE Tail(w.fq),
     sent |-> Append(w.sent, [method |-> req.method, id |-> req.id,
                              attempt |-> st.retry + 1, wait |-> st.slept,
                              status |-> att.status, code |-> att.code,
                              json |-> att.json, raw |-> att.raw,
                              body |-> BodyWritten(req, st.drained)])]

\* The retry loop; st = [retry, delay, drained, slept] are the loop's locals
\* (slept: the wait that preceded the coming attempt).  Yields the world after
\* the last attempt and that attempt.
RECURSIVE RetryLoop(_, _, _, _, _)
RetryLoop(w, c, q, req, st) ==
    Only({IF AttemptSucceeded(att) \/ ~RetryAllowed(st.retry, c.retries)
          THEN [w |-> Sent(w, req, st, att), att |-> att]
          ELSE RetryLoop(Sent(w, req, st, att), c, q, req,
                         [retry |-> st.retry + 1, delay |-> NextDelay(st.delay, c.backoff),
                          drained |-> st.drained \/ att.read, slept |-> st.delay]) :
          att \in {Do(w, q, req, IF w.fq = <<>> THEN "pass" ELSE Head(w.fq), st.drained)}})

ErrTransport == <<"error", "making", "HTTP", "request">>
ErrAPI(info) == <<"API", "error", ":">> \o info
ErrEmptyResponse == <<"API", "returned", "empty", "response">>
ErrCloudflare ==
    <<"LWS", "API", "is", "temporarily", "protected", "by", "Cloudflare", "challenge", "system">>
ErrChallenge ==
    <<"LWS", "API", "returned", "HTML", "challenge", "page", "instead", "of", "JSON">>
ErrUnmarshal == <<"error", "unmarshaling", "response">>

\* The parts by which a body that is no JSON is taken for a challenge page.
ChallengeMarkers ==
    {"<!DOCTYPE html>", "<html", "Just a moment...", "cloudflare", "challenge"}

\* makeRequest, json.Unmarshal failed on the body `raw`: the error returned.
UnmarshalError(raw) ==
    IF \E i \in DOMAIN raw : raw[i] \in ChallengeMarkers
    THEN IF \E i \in DOMAIN raw : raw[i] = "Invalid response from upstream server"
         THEN ErrCloudflare
         ELSE ErrChallenge
    ELSE ErrUnmarshal

\* makeRequest: [w, err, code, data].
makeRequest(w, c, q, req) ==
    Only({IF r.att.err THEN [w |-> r.w, err |-> ErrTransport, code |-> 0, data |-> <<>>]
          ELSE IF ~r.att.json /\ r.att.raw = <<>>
               THEN [w |-> r.w, err |-> ErrEmptyResponse, code |-> 0, data |-> <<>>]
          ELSE IF ~r.att.json
               THEN [w |-> r.w, err |-> UnmarshalError(r.att.raw), code |-> 0, data |-> <<>>]
          ELSE IF r.att.status >= 400 \/ r.att.code # 200
               THEN [w |-> r.w, err |-> ErrAPI(r.att.info), code |-> r.att.code, data |-> <<>>]
               ELSE [w |-> r.w, err |-> NoErr, code |-> r.att.code, data |-> r.att.data] :
          r \in {RetryLoop(w, c, q, req,
                           [retry |-> 0, delay |-> c.delay, drained |-> FALSE, slept |-> 0])}})

(***************************************************************************)
(* LWSClient: GetDNSZone, CreateDNSRecord, findDNSRecordByName,            *)
(* GetDNSRecord, UpdateDNSRecord, DeleteDNSRecord.  A DNSRecord is         *)
(* [id, name, type, value, ttl, zone]; id 0 is the absent identifier.      *)
(***************************************************************************)
NoRecord == [id |-> 0, name |-> <<>>, type |-> <<>>, value |-> <<>>, ttl |-> 0, zone |-> <<>>]

Request(method, zoneName, rec) ==
    [method |-> method, zoneName |-> zoneName, id |-> rec.id, name |-> rec.name,
     type |-> rec.type, value |-> rec.value, ttl |-> rec.ttl]

\* The zone listing decoded into DNSRecords; the listing carries no zone.
DecodeRecords(data) ==
    [i \in DOMAIN data |-> [id |-> data[i].id, name |-> data[i].name, type |-> data[i].type,
                            value |-> data[i].value, ttl |-> data[i].ttl, zone |-> <<>>]]

\* [w, err, records]
GetDNSZone(w, c, q, zoneName) ==
    Only({IF r.err # NoErr THEN [w |-> r.w, err |-> r.err, records |-> <<>>]
          ELSE [w |-> r.w, err |-> NoErr, records |-> DecodeRecords(r.data)] :
          r \in {makeRequest(w, c, q, Request("GET", zoneName, NoRecord))}})

ErrNameNotFound == <<"DNS", "record", "with", "name", "and", "type", "not", "found", "in", "zone">>

\* The first record of the listing that P accepts, or NoRecord.
FirstRecord(records, P(_)) ==
    IF SeqIndex(records, P) = {} THEN NoRecord ELSE records[FirstIndex(records, P)]

\* [w, err, rec]
findDNSRecordByName(w, c, q, zoneName, recordName, recordType) ==
    LET want == [name |-> recordName, type |-> recordType]
        Hit(r) == FindByNameMatch(want, r)
    IN  Only({IF z.err # NoErr
              THEN [w |-> z.w, err |-> <<"error", "getting", "DNS", "zone", ":">> \o z.err,
                    rec |-> NoRecord]
              ELSE IF SeqIndex(z.records, Hit) # {}
                   THEN [w |-> z.w, err |-> NoErr,
                         rec |-> [FirstRecord(z.records, Hit) EXCEPT !.zone = zoneName]]
                   ELSE [w |-> z.w, err |-> ErrNameNotFound, rec |-> NoRecord] :
              z \in {GetDNSZone(w, c, q, zoneName)}})

\* The record returned as created whether or not it was found.
CreateDNSRecordFindLenient(c, q, record, r) ==
    Only({[w |-> f.w, err |-> NoErr,
           rec |-> [r.data EXCEPT !.zone = record.zone, !.id = f.rec.id]] :
          f \in {findDNSRecordByName(r.w, c, q, record.zone, record.name, record.type)}})

\* CreateDNSRecord after its POST succeeded with response r: the identifier
\* is looked up by name and type.
CreateDNSRecordFind(c, q, record, r) ==
    Only({IF f.err # NoErr
          THEN [w |-> f.w,
                err |-> <<"record", "was", "created", "but", "failed", "to", "retrieve",
                          "its", "ID", ":">> \o f.err,
                rec |-> NoRecord]
          ELSE [w |-> f.w, err |-> NoErr,
                rec |-> [r.data EXCEPT !.zone = record.zone, !.id = f.rec.id]] :
          f \in {findDNSRecordByName(r.w, c, q, record.zone, record.name, record.type)}})

\* [w, err, rec]
CreateDNSRecord(w, c, q, record) ==
    Only({IF r.err # NoErr THEN [w |-> r.w, err |-> r.err, rec |-> NoRecord]
          ELSE CreateDNSRecordFind(c, q, record, r) :
          r \in {makeRequest(w, c, q, Request("POST", record.zone, [record EXCEPT !.id = 0]))}})

ErrIdNotFound == <<"record", "with", "ID", "not", "found", "in", "domain">>

\* The lookup that settles for the first record of the zone when none has
\* the identifier.
GetDNSRecordOrFirst(w, c, q, domain, recordID) ==
    LET recordIDInt == IF recordID # <<>> /\ Atoi(recordID).ok THEN Atoi(recordID).n ELSE 0
        Hit(r) == r.id = recordIDInt
    IN  Only({IF z.err # NoErr THEN [w |-> z.w, err |-> z.err, rec |-> NoRecord]
              ELSE IF SeqIndex(z.records, Hit) # {}
                   THEN [w |-> z.w, err |-> NoErr,
                         rec |-> [FirstRecord(z.records, Hit) EXCEPT !.zone = domain]]
                   ELSE IF z.records # <<>>
                   THEN [w |-> z.w, err |-> NoErr,
                         rec |-> [z.records[1] EXCEPT !.zone = domain]]
                   ELSE [w |-> z.w, err |-> ErrIdNotFound, rec |-> NoRecord] :
              z \in {GetDNSZone(w, c, q, domain)}})

\* [w, err, rec]; recordID is the identifier as the state keeps it (a string).
GetDNSRecord(w, c, q, domain, recordID) ==
    LET recordIDInt == IF recordID # <<>> /\ Atoi(recordID).ok THEN Atoi(recordID).n ELSE 0
        Hit(r) == r.id = recordIDInt
    IN  Only({IF z.err # NoErr THEN [w |-> z.w, err |-> z.err, rec |-> NoRecord]
              ELSE IF SeqIndex(z.records, Hit) # {}
                   THEN [w |-> z.w, err |-> NoErr,
                         rec |-> [FirstRecord(z.records, Hit) EXCEPT !.zone = domain]]
                   ELSE [w |-> z.w, err |-> ErrIdNotFound, rec |-> NoRecord] :
              z \in {GetDNSZone(w, c, q, domain)}})

ErrUpdateNeedsId == <<"record", "ID", "is", "required", "for", "update", "operation">>
ErrDeleteNeedsId == <<"record", "ID", "is", "required", "for", "delete", "operation">>

\* [w, err, rec]
UpdateDNSRecord(w, c, q, record) ==
    IF record.id = 0 THEN [w |-> w, err |-> ErrUpdateNeedsId, rec |-> NoRecord]
    ELSE Only({IF r.err # NoErr THEN [w |-> r.w, err |-> r.err, rec |-> NoRecord]
               ELSE [w |-> r.w, err |-> NoErr, rec |-> [r.data EXCEPT !.zone = record.zone]] :
               r \in {makeRequest(w, c, q, Request("PUT", record.zone, record))}})

\* [w, err]
DeleteDNSRecord(w, c, q, recordID, zoneName) ==
    IF recordID = 0 THEN [w |-> w, err |-> ErrDeleteNeedsId]
    ELSE Only({IF r.err # NoErr THEN [w |-> r.w, err |-> r.err]
               ELSE IF r.code # 200 /\ r.code # 201
                    THEN [w |-> r.w, err |-> <<"API", "error", ":">>]
                    ELSE [w |-> r.w, err |-> NoErr] :
               r \in {makeRequest(w, c, q,
                                  Request("DELETE", zoneName, [NoRecord EXCEPT !.id = recordID]))}})

(***************************************************************************)
(* DNSRecordResource: Create, Read, Update, Delete.                        *)
(* The resource model `data` is [id, name, type, value, ttl, zone] with    *)
(* id a string; ttl 0 stands for a null ttl.  A handler yields             *)
(*   [w, out, data, errors, warnings, path, err]                           *)
(* where out is "set" (resp.State.Set(data)), "remove"                     *)
(* (resp.State.RemoveResource) or "keep" (state left as it was), and err   *)
(* is the error the client returned to Delete or to Create's create call.  *)
(***************************************************************************)
Result(w, out, data, errors, warnings, path) ==
    [w |-> w, out |-> out, data |-> data, errors |-> errors, warnings |-> warnings,
     path |-> path, err |-> NoErr]

Fail(w, data, title, path) == Result(w, "keep", data, <<title>>, <<>>, path)

\* The required-field test passed by everything.
IsEmptyNever(s) == FALSE

\* recordName == "" and the like, on the trimmed field.
IsEmpty(s) == s = <<>>

\* The identifier test with the sign left unchecked.
ValidRecordIDNumeric(recordID) == Atoi(recordID).ok

\* Update, Delete: strconv.Atoi succeeds and the identifier is positive.
ValidRecordID(recordID) == Atoi(recordID).ok /\ Atoi(recordID).n > 0

\* The model as Create's and Update's final block fills it from the API record.
FromRecord(data, rec, zoneName) ==
    [id |-> Itoa(rec.id), name |-> rec.name, type |-> rec.type, value |-> rec.value,
     ttl |-> rec.ttl, zone |-> zoneName]

\* The record found is taken over as it is, without the update.
CreateTakeExisting(w, c, q, data, record, existingRecord) ==
    IF existingRecord.id <= 0
    THEN Fail(w, data, "Invalid Record ID", "existing_invalid_id")
    ELSE Result(w, "set", [data EXCEPT !.id = Itoa(existingRecord.id), !.ttl = existingRecord.ttl],
                <<>>, <<"Updated Existing DNS Record">>, "updated_existing")

\* Create, a record found by the initial search: it is updated in place.
CreateUpdateExisting(w, c, q, data, record, existingRecord) ==
    IF existingRecord.id <= 0
    THEN Fail(w, data, "Invalid Record ID", "existing_invalid_id")
    ELSE Only({IF u.err # NoErr
               THEN Fail(u.w, data, "Client Error", "existing_update_failed")
               ELSE IF u.rec.id <= 0
                    THEN Fail(u.w, data, "Invalid Updated Record ID",
                              "existing_updated_invalid_id")
                    ELSE Result(u.w, "set",
                                [data EXCEPT !.id = Itoa(u.rec.id), !.ttl = u.rec.ttl],
                                <<>>, <<"Updated Existing DNS Record">>, "updated_existing") :
               u \in {UpdateDNSRecord(w, c, q, [record EXCEPT !.id = existingRecord.id])}})

\* Create, a record found by the search repeated after a create conflict: it
\* is adopted, after an update where its value differs from the desired one.
CreateAdoptExisting(w, c, q, data, record, zoneName, existingRecord) ==
    IF existingRecord.value # record.value
    THEN Only({Result(u.w, "set",
                      FromRecord(data, IF u.err = NoErr THEN u.rec ELSE existingRecord,
                                 zoneName),
                      <<>>, <<"Adopted Existing DNS Record">>,
                      IF u.err = NoErr THEN "adopted_updated" ELSE "adopted_update_failed") :
               u \in {UpdateDNSRecord(w, c, q, [record EXCEPT !.id = existingRecord.id])}})
    ELSE Result(w, "set", FromRecord(data, existingRecord, zoneName),
                <<>>, <<"Adopted Existing DNS Record">>, "adopted_same_value")

\* Create, after a create call refused with a conflict: the zone is fetched
\* and searched again.
CreateConflict(w, c, q, data, record, zoneName) ==
    LET Hit(r) == FallbackSearchMatch(record, r)
    IN  Only({IF z.err = NoErr /\ SeqIndex(z.records, Hit) # {}
              THEN CreateAdoptExisting(z.w, c, q, data, record, zoneName,
                                       FirstRecord(z.records, Hit))
              ELSE Fail(z.w, data, "Client Error", "create_conflict_unresolved") :
              z \in {GetDNSZone(w, c, q, record.zone)}})

\* Create, from the create call on.
CreateNew(w, c, q, data, record, zoneName) ==
    Only({IF cr.err # NoErr
          THEN [(IF IsConflictError(cr.err)
                 THEN CreateConflict(cr.w, c, q, data, record, zoneName)
                 ELSE Fail(cr.w, data, "Client Error", "create_failed"))
                EXCEPT !.err = cr.err]
          ELSE IF cr.rec.id <= 0
               THEN Fail(cr.w, data, "Invalid Created Record ID", "created_invalid_id")
               ELSE Result(cr.w, "set", FromRecord(data, cr.rec, zoneName), <<>>, <<>>,
                           "created_new") :
          cr \in {CreateDNSRecord(w, c, q, record)}})

\* The create given up when the zone cannot be fetched.
CreateSearchStrict(w, c, q, data, record, zoneName) ==
    LET Hit(r) == CreateSearchMatch(record, r)
    IN  Only({IF z.err # NoErr THEN Fail(z.w, data, "Client Error", "zone_fetch_failed")
              ELSE IF SeqIndex(z.records, Hit) # {}
              THEN CreateUpdateExisting(z.w, c, q, data, record, FirstRecord(z.records, Hit))
              ELSE CreateNew(z.w, c, q, data, record, zoneName) :
              z \in {GetDNSZone(w, c, q, record.zone)}})

\* Create, from the initial zone fetch on.
CreateSearch(w, c, q, data, record, zoneName) ==
    LET Hit(r) == CreateSearchMatch(record, r)
    IN  Only({IF z.err = NoErr /\ SeqIndex(z.records, Hit) # {}
              THEN CreateUpdateExisting(z.w, c, q, data, record, FirstRecord(z.records, Hit))
              ELSE CreateNew(z.w, c, q, data, record, zoneName) :
              z \in {GetDNSZone(w, c, q, record.zone)}})

\* Create(plan): plan is [name, type, value, ttl, zone].
Create(w, c, q, plan) ==
    LET data == [id |-> <<>>, name |-> plan.name, type |-> plan.type, value |-> plan.value,
                 ttl |-> plan.ttl, zone |-> plan.zone]
        recordName  == TrimSpace(plan.name)
        recordType  == TrimSpace(plan.type)
        recordValue == TrimSpace(plan.value)
        zoneName    == TrimSpace(plan.zone)
    IN  IF IsEmpty(recordName) \/ IsEmpty(recordType) \/ IsEmpty(recordValue)
           \/ IsEmpty(zoneName)
        THEN Fail(w, data, "Validation Error", "validation")
        ELSE CreateSearch(w, c, q, data,
                          [id |-> 0, name |-> recordName, type |-> recordType,
                           value |-> recordValue, ttl |-> plan.ttl, zone |-> zoneName],
                          zoneName)

\* Read, drift recovery: the zone is fetched and searched by name and type.
\* `drift` tells the search after a failed lookup from the one made for an
\* unusable identifier.
ReadByName(w, c, q, data, drift) ==
    LET Hit(r) == ReadSearchMatch(data, r)
    IN  Only({IF z.err # NoErr
              THEN Result(z.w, "remove", data, <<>>, <<>>,
                          IF drift THEN "drift_zone_fetch_failed"
                          ELSE "invalid_id_zone_fetch_failed")
              ELSE IF SeqIndex(z.records, Hit) = {}
                   THEN Result(z.w, "remove", data, <<>>, <<>>,
                               IF drift THEN "drift_not_found" ELSE "invalid_id_not_found")
                   ELSE Result(z.w, "set",
                               FromRecord(data, FirstRecord(z.records, Hit), data.zone),
                               <<>>, <<>>,
                               IF drift THEN "drift_found" ELSE "invalid_id_found") :
              z \in {GetDNSZone(w, c, q, data.zone)}})

\* The lookup by identifier without drift recovery: any failure removes the
\* resource.
ReadByIdNoRecovery(w, c, q, data) ==
    Only({IF g.err = NoErr
          THEN Result(g.w, "set", FromRecord(data, g.rec, data.zone), <<>>, <<>>, "by_id")
          ELSE Result(g.w, "remove", data, <<>>, <<>>, "lookup_failed") :
          g \in {GetDNSRecord(w, c, q, data.zone, data.id)}})

\* The lookup by identifier with every failure but "not found" reported as
\* an error.
ReadByIdStrict(w, c, q, data) ==
    Only({IF g.err = NoErr
          THEN Result(g.w, "set", FromRecord(data, g.rec, data.zone), <<>>, <<>>, "by_id")
          ELSE IF IsReadNotFound(g.err) THEN ReadByName(g.w, c, q, data, TRUE)
               ELSE Fail(g.w, data, "Client Error", "lookup_failed") :
          g \in {GetDNSRecord(w, c, q, data.zone, data.id)}})

\* Read, the lookup by identifier and what follows its failure.
ReadById(w, c, q, data) ==
    Only({IF g.err = NoErr
          THEN Result(g.w, "set", FromRecord(data, g.rec, data.zone), <<>>, <<>>, "by_id")
          ELSE IF IsReadNotFound(g.err) THEN ReadByName(g.w, c, q, data, TRUE)
               ELSE Result(g.w, "remove", data, <<>>, <<>>, "lookup_failed") :
          g \in {GetDNSRecord(w, c, q, data.zone, data.id)}})

\* Only an identifier that is no number skips the lookup.
ReadSkipsLookupNonNumeric(recordID) == ~Atoi(recordID).ok

\* Read: err != nil || recordIDInt <= 0, the identifier in the state cannot
\* be looked up.
ReadSkipsLookup(recordID) == ~Atoi(recordID).ok \/ Atoi(recordID).n <= 0

\* The zone of the prior state never taken for missing.
ReadMissingZoneNever(zoneName) == FALSE

\* Read: zoneName == "", the prior state holds no zone.
ReadMissingZone(zoneName) == zoneName = <<>>

\* Read(data): data is the prior state.
Read(w, c, q, data) ==
    IF ReadMissingZone(data.zone)
    THEN Fail(w, data, "Missing Zone Information", "missing_zone")
    ELSE IF ReadSkipsLookup(data.id) THEN ReadByName(w, c, q, data, FALSE)
    ELSE ReadById(w, c, q, data)

\* Update(plan): plan is the planned model, identifier included.
Update(w, c, q, plan) ==
    LET recordID    == TrimSpace(plan.id)
        recordName  == TrimSpace(plan.name)
        recordType  == TrimSpace(plan.type)
        recordValue == TrimSpace(plan.value)
        zoneName    == TrimSpace(plan.zone)
    IN  IF IsEmpty(recordID) \/ IsEmpty(recordName) \/ IsEmpty(recordType)
           \/ IsEmpty(recordValue) \/ IsEmpty(zoneName)
        THEN Fail(w, plan, "Validation Error", "validation")
        ELSE IF ~ValidRecordID(recordID)
        THEN Fail(w, plan, "Invalid Record ID", "invalid_id")
        ELSE Only({IF u.err # NoErr THEN Fail(u.w, plan, "Client Error", "update_failed")
                   ELSE Result(u.w, "set", FromRecord(plan, u.rec, zoneName), <<>>, <<>>,
                               "updated") :
                   u \in {UpdateDNSRecord(w, c, q,
                              [id |-> Atoi(recordID).n, name |-> recordName,
                               type |-> recordType, value |-> recordValue,
                               ttl |-> plan.ttl, zone |-> zoneName])}})

\* Delete(data): data is the prior state.  Without an error the framework
\* removes the resource from the state.
Delete(w, c, q, data) ==
    LET recordID == TrimSpace(data.id)
        zoneName == TrimSpace(data.zone)
    IN  IF IsEmpty(recordID) \/ IsEmpty(zoneName)
        THEN Fail(w, data, "Validation Error", "validation")
        ELSE IF ~ValidRecordID(recordID)
        THEN Fail(w, data, "Invalid Record ID", "invalid_id")
        ELSE Only({IF d.err # NoErr
                   THEN [Fail(d.w, data, "Client Error", "delete_failed") EXCEPT !.err = d.err]
                   ELSE Result(d.w, "remove", data, <<>>, <<>>, "deleted") :
                   d \in {DeleteDNSRecord(w, c, q, Atoi(recordID).n, zoneName)}})

(***************************************************************************)
(* Specification Spec: one managed record, its resource operations run one *)
(* at a time against the remote, and what happens to the remote and to the *)
(* Terraform state outside the provider.                                   *)
(***************************************************************************)
NoData == [id |-> <<>>, name |-> <<>>, type |-> <<>>, value |-> <<>>, ttl |-> 0, zone |-> <<>>]
NoState == [present |-> FALSE, data |-> NoData]

NoPrev == [op |-> "none", input |-> NoData, ok |-> FALSE, id |-> <<>>, preEmpty |-> FALSE]
NoOp ==
    [op |-> "none", input |-> NoData, pre |-> <<>>, out |-> "keep",
     path |-> "none", errors |-> <<>>, warnings |-> <<>>, err |-> NoErr, sent |-> <<>>,
     data |-> NoData, prev |-> NoPrev]

\* The client's Login, ApiKey, BaseURL and TestMode as constructed.
Credentials ==
    [login |-> "login", apiKey |-> "key", baseURL |-> "https://api.lws.net/v1",
     testMode |-> FALSE]

\* The remote as the integration test server plays it.
TestServer ==
    [mirror |-> FALSE, rejectDup |-> FALSE, echoId |-> TRUE, listIds |-> TRUE,
     reworded |-> FALSE, folds |-> FALSE]

\* The remotes that answer as the API is documented to: refusals with a
\* mirrored HTTP status or with status 200, duplicates refused or stored.
ClientRemotes ==
    {[TestServer EXCEPT !.mirror = m, !.rejectDup = d] : m, d \in BOOLEAN}

\* The remotes considered: those, one that echoes no identifier after an
\* update, one that refuses duplicates and lists records without their
\* identifiers, and one that words the refusal of a duplicate differently.
Remotes ==
    ClientRemotes
        \cup {[TestServer EXCEPT !.echoId = FALSE],
              [TestServer EXCEPT !.rejectDup = TRUE, !.listIds = FALSE],
              [TestServer EXCEPT !.rejectDup = TRUE, !.reworded = TRUE]}

\* Fault scripts: what hits the coming attempts, one entry an attempt.  A
\* resource operation meets one fault at one of its first attempts, or a
\* transport error at its first attempt and a fault at its fourth.
FaultKinds == {"neterr", "h500"}
Passes(n) == [i \in 1..n |-> "pass"]
FaultScripts ==
    {<<>>} \cup {Passes(k - 1) \o <<f>> : k \in 1..(MaxRetries + 1), f \in FaultKinds}
           \cup {<<"neterr">> \o Passes(2) \o <<f>> : f \in FaultKinds}

\* Desired configurations of the managed record: typed cleanly, or with
\* stray case and blanks in the name and a blank after the zone.
Spellings ==
    {[name |-> <<"w">>, zone |-> ZoneName], [name |-> <<"W", " ">>, zone |-> ZoneName \o <<" ">>]}
Plans ==
    {[name |-> s.name, type |-> <<"A">>, value |-> v, ttl |-> 60, zone |-> s.zone] :
        s \in Spellings, v \in {<<"1">>, <<"2">>}}

\* Records other parties put into the zone.
ForeignRecords == [name : {<<"W">>, <<"m">>}, type : {<<"A">>}, value : {<<"9">>}, ttl : {300}]

World(fq) == [zone |-> zone, nextId |-> nextId, fq |-> fq, sent |-> <<>>]

\* The Terraform state after a handler's response.
StateAfter(r, prior) ==
    IF r.errors # <<>> THEN prior
    ELSE IF r.out = "set" THEN [present |-> TRUE, data |-> r.data]
    ELSE IF r.out = "remove" THEN NoState
    ELSE prior

Summary(l) ==
    [op |-> l.op, input |-> l.input, ok |-> l.errors = <<>>,
     id |-> IF l.errors = <<>> /\ l.out = "set" THEN l.data.id ELSE <<>>,
     preEmpty |-> l.pre = <<>>]

\* The Create that ran right before, a removal from the state aside.
CreateBefore(l) ==
    IF l.op = "Create" THEN Summary(l) ELSE IF l.op = "forgotten" THEN l.prev ELSE NoPrev

\* The handler's response r to `op` on `input` becomes the new state.
Respond(op, input, r) ==
    /\ zone' = r.w.zone
    /\ nextId' = r.w.nextId
    /\ tf' = StateAfter(r, tf)
    /\ last' = [op |-> op, input |-> input, pre |-> zone, out |-> r.out,
                path |-> r.path, errors |-> r.errors, warnings |-> r.warnings,
                err |-> r.err, sent |-> r.w.sent, data |-> r.data,
                prev |-> IF op = "Create" THEN CreateBefore(last) ELSE NoPrev]
    /\ UNCHANGED <<cfg, mIn, mOut, mu, call, wire, trail, ops>>

NoVerdict == [done |-> FALSE]

\* LWSClient.mu as constructed: held by no goroutine.
Unlocked == 0

Idle ==
    /\ zone = <<>>
    /\ nextId = 1
    /\ tf = NoState
    /\ last = NoOp
    /\ cfg = [retries |-> 0, delay |-> 0, backoff |-> 0, auth |-> Credentials,
              q |-> TestServer]

MatchIdle == mIn = [a |-> [name |-> <<>>, type |-> <<>>], b |-> [name |-> <<>>, type |-> <<>>]] /\ mOut = NoVerdict

ClientIdle == mu = Unlocked /\ call = <<>> /\ wire = <<>>

\* No lifecycle under way, no operations running side by side.
Sequential == trail = <<>> /\ ops = <<>>

Init ==
    /\ zone = <<>>
    /\ nextId = 1
    /\ tf = NoState
    /\ last = NoOp
    /\ cfg \in [retries : {0, MaxRetries}, delay : {1}, backoff : {2}, auth : {Credentials},
                q : Remotes]
    /\ MatchIdle
    /\ ClientIdle
    /\ Sequential

DoCreate ==
    /\ ~tf.present
    /\ nextId <= MaxId
    /\ \E plan \in Plans, fq \in FaultScripts :
       \E r \in {Create(World(fq), cfg, cfg.q, plan)} :
          Respond("Create", [NoData EXCEPT !.name = plan.name, !.type = plan.type,
                                           !.value = plan.value, !.ttl = plan.ttl,
                                           !.zone = plan.zone], r)

DoRead ==
    /\ tf.present
    /\ \E fq \in FaultScripts :
       \E r \in {Read(World(fq), cfg, cfg.q, tf.data)} :
          Respond("Read", tf.data, r)

\* The planned model of an update: the state with a new value.
DoUpdate ==
    /\ tf.present
    /\ \E value \in {p.value : p \in Plans}, fq \in FaultScripts :
          /\ value # tf.data.value
          /\ \E r \in {Update(World(fq), cfg, cfg.q, [tf.data EXCEPT !.value = value])} :
                Respond("Update", [tf.data EXCEPT !.value = value], r)

DoDelete ==
    /\ tf.present
    /\ \E fq \in FaultScripts :
       \E r \in {Delete(World(fq), cfg, cfg.q, tf.data)} :
          Respond("Delete", tf.data, r)

\* terraform state rm: the record stays in the zone, the state forgets it.
\* Of a Create before, the summary is kept.
StateRemoved ==
    /\ tf.present
    /\ tf' = NoState
    /\ last' = [NoOp EXCEPT !.op = "forgotten", !.prev = CreateBefore(last)]
    /\ UNCHANGED <<zone, nextId, cfg, mIn, mOut, mu, call, wire, trail, ops>>

Outside == [NoOp EXCEPT !.op = "outside"]

\* Another party adds a record to the zone.
ForeignAdd ==
    /\ nextId <= MaxId
    /\ \E r \in ForeignRecords :
          zone' = Append(zone, [id |-> nextId, name |-> r.name, type |-> r.type,
                                value |-> r.value, ttl |-> r.ttl])
    /\ nextId' = nextId + 1
    /\ last' = Outside
    /\ UNCHANGED <<tf, cfg, mIn, mOut, mu, call, wire, trail, ops>>

\* Another party deletes a record of the zone.
ForeignDelete ==
    /\ \E i \in DOMAIN zone : zone' = RemoveAt(zone, i)
    /\ last' = Outside
    /\ UNCHANGED <<nextId, tf, cfg, mIn, mOut, mu, call, wire, trail, ops>>

\* Identifier drift: the remote gives a record a new identifier.
Renumber ==
    /\ nextId <= MaxId
    /\ \E i \in DOMAIN zone : zone' = [zone EXCEPT ![i].id = nextId]
    /\ nextId' = nextId + 1
    /\ last' = Outside
    /\ UNCHANGED <<tf, cfg, mIn, mOut, mu, call, wire, trail, ops>>

Next ==
    \/ DoCreate
    \/ DoRead
    \/ DoUpdate
    \/ DoDelete
    \/ StateRemoved
    \/ ForeignAdd
    \/ ForeignDelete
    \/ Renumber

Spec == Init /\ [][Next]_vars

(***************************************************************************)
(* Properties of the resource operations.  They are stated over `last`:    *)
(* the operation that ran last, its input, the zone before it (pre), the   *)
(* requests it sent and its response.                                      *)
(***************************************************************************)
Completed(op) == last.op = op /\ last.errors = <<>>

\* Every attempt of the last operation reached the remote and was answered
\* with a success.
AllGotThrough == \A i \in DOMAIN last.sent : last.sent[i].status = 200

SentMethods == {last.sent[i].method : i \in DOMAIN last.sent}
SentTo(method, id) ==
    \E i \in DOMAIN last.sent : last.sent[i].method = method /\ last.sent[i].id = id

\* The records of a listing with the identity of `want`.
Matching(records, want) == {i \in DOMAIN records : IdentityMatch(want, records[i])}

\* The desired record of the last Create, as Create sends it.
Desired ==
    [name |-> TrimSpace(last.input.name), type |-> TrimSpace(last.input.type),
     value |-> TrimSpace(last.input.value)]

\* The last two operations were Creates of the same desired fields, the
\* first on an empty zone, nothing else touching the zone in between; both
\* completed and the second received the zone listing it asked for first.
CreatedTwice ==
    /\ Completed("Create")
    /\ last.prev.op = "Create"
    /\ last.prev.ok
    /\ last.prev.preEmpty
    /\ last.prev.input = last.input
    /\ last.sent # <<>>
    /\ last.sent[1].method = "GET"
    /\ last.sent[1].status = 200

\* C1: starting from an empty zone, two successive Creates with identical
\* desired fields (the second having fetched the zone) leave exactly one
\* record with that (name, type), and the second Create returns the
\* identifier of the record the first one made, sending no create request.
C1_CreateTwiceOneRecord ==
    CreatedTwice =>
        /\ Cardinality(Matching(zone, last.input)) = 1
        /\ last.out = "set"
        /\ last.data.id = last.prev.id
        /\ "POST" \notin SentMethods

C1_Witness ==
    /\ CreatedTwice
    /\ last.input.name = <<"W", " ">>
    /\ Len(zone) = 1
    /\ last.data.id = Itoa(zone[1].id)

\* The record Create's search finds in the zone as it was: the first match.
Found == last.pre[CHOOSE i \in Matching(last.pre, last.input) :
                     \A j \in Matching(last.pre, last.input) : i <= j]

\* The last operation was a Create that completed with every request
\* answered, on a zone whose matching record has a positive identifier and
\* another value than the desired one.
CreatedOverOtherValue ==
    /\ Completed("Create")
    /\ AllGotThrough
    /\ Matching(last.pre, last.input) # {}
    /\ Found.id > 0
    /\ Found.value # Desired.value

\* C2: if the zone holds a matching record with a positive identifier and a
\* different value, Create sends an update to that identifier and no create;
\* the zone keeps its number of records, the matched record carries the
\* desired value, and the warning "Updated Existing DNS Record" is reported.
C2_UpdatesExisting ==
    CreatedOverOtherValue =>
        /\ SentTo("PUT", Found.id)
        /\ "POST" \notin SentMethods
        /\ Len(zone) = Len(last.pre)
        /\ \E i \in DOMAIN zone : zone[i].id = Found.id /\ zone[i].value = Desired.value
        /\ last.warnings = <<"Updated Existing DNS Record">>
        /\ last.out = "set"
        /\ last.data.id = Itoa(Found.id)

C2_Witness ==
    /\ CreatedOverOtherValue
    /\ last.prev.op = "none"
    /\ Found.name # Desired.name
    /\ zone # <<>>

\* The tracked identifier of the last Read, as a number (0 if unusable).
TrackedId == IF Atoi(last.input.id).ok THEN Atoi(last.input.id).n ELSE 0

\* The records of the zone as it was with the tracked name and type.
SameNameType == {i \in DOMAIN last.pre : /\ last.pre[i].name = last.input.name
                                         /\ last.pre[i].type = last.input.type}
Relocated == last.pre[CHOOSE i \in SameNameType : \A j \in SameNameType : i <= j]

\* The last operation was a Read, every request answered, of a tracked
\* record whose positive identifier no record of the zone carries while a
\* record with the tracked name and type is there.
ReadAfterDrift ==
    /\ last.op = "Read"
    /\ AllGotThrough
    /\ TrackedId > 0
    /\ ~HasId(last.pre, TrackedId)
    /\ SameNameType # {}

\* C3: drift recovery.  Read of a tracked record whose positive identifier
\* is gone from the zone, while the zone holds a record of the same name and
\* type under another identifier, writes that record's identifier with its
\* value and ttl, keeps the tracked zone, leaves the remote zone as it was
\* and does not remove the resource.
C3_DriftRecovered ==
    ReadAfterDrift =>
        /\ last.errors = <<>>
        /\ last.out = "set"
        /\ last.data.id = Itoa(Relocated.id)
        /\ last.data.value = Relocated.value
        /\ last.data.ttl = Relocated.ttl
        /\ last.data.name = last.input.name
        /\ last.data.type = last.input.type
        /\ last.data.zone = last.input.zone
        /\ zone = last.pre

C3_Witness ==
    /\ ReadAfterDrift
    /\ last.data.value # last.input.value
    /\ last.data.ttl # last.input.ttl
    /\ last.data.id # last.input.id

\* C4: a Delete whose remote delete call fails with a not-found message
\* completes without an error diagnostic, the resource leaves the state and
\* exactly one warning is reported.
C4_IdempotentDelete ==
    (last.op = "Delete" /\ last.err # NoErr /\ IsNotFoundError(last.err)) =>
        /\ last.errors = <<>>
        /\ last.out = "remove"
        /\ Len(last.warnings) = 1

\* C6: every Create, Update and Read that writes state writes the zone
\* exactly as the caller gave it (plan for Create and Update, prior state
\* for Read).
C6_ZonePreserved ==
    (last.op \in {"Create", "Update", "Read"} /\ last.errors = <<>> /\ last.out = "set") =>
        last.data.zone = last.input.zone

\* The last operation was a Create whose initial zone fetch was answered at
\* its first attempt.
InitialFetchAnswered ==
    /\ last.op = "Create"
    /\ last.sent # <<>>
    /\ last.sent[1].method = "GET"
    /\ last.sent[1].status = 200

\* C11: if Create's zone search finds a matching record whose value is the
\* desired one, Create sends neither a create nor an update, returns the
\* identifier of the record found and reports the warning "Adopted Existing
\* DNS Record".
C11_AdoptsWithoutMutation ==
    (/\ InitialFetchAnswered
     /\ cfg.q.listIds
     /\ Matching(last.pre, last.input) # {}
     /\ Found.id > 0
     /\ Found.value = Desired.value) =>
        /\ "POST" \notin SentMethods
        /\ "PUT" \notin SentMethods
        /\ last.errors = <<>>
        /\ last.out = "set"
        /\ last.data.id = Itoa(Found.id)
        /\ last.warnings = <<"Adopted Existing DNS Record">>

(***************************************************************************)
(* Specification SpecInputs: Create, Read, Update or Delete invoked once   *)
(* with                                                                    *)
(* whatever the caller hands over: required fields present, empty or       *)
(* blank, the tracked identifier usable or not.                            *)
(***************************************************************************)
FieldInputs(good) == {<<>>, <<" ">>, good}
BadIds == {<<>>, <<" ">>, <<"x">>, <<"0">>, <<"-", "1">>}
IdInputs == BadIds \cup {<<"1">>, <<"1", " ">>}

ResourceInputs ==
    [id : IdInputs, name : FieldInputs(<<"w">>), type : FieldInputs(<<"A">>),
     value : FieldInputs(<<"1">>), ttl : {60}, zone : FieldInputs(ZoneName)]

InitInputs ==
    /\ \/ zone = <<>>
       \/ zone = <<[id |-> 1, name |-> <<"w">>, type |-> <<"A">>, value |-> <<"1">>,
                    ttl |-> 60]>>
    /\ nextId = 2
    /\ tf \in {NoState} \cup [present : {TRUE}, data : ResourceInputs]
    /\ last = NoOp
    /\ cfg \in [retries : {0, MaxRetries}, delay : {1}, backoff : {2}, auth : {Credentials},
                q : {TestServer}]
    /\ MatchIdle
    /\ ClientIdle
    /\ Sequential

InvokeCreate ==
    /\ last.op = "none"
    /\ ~tf.present
    /\ \E plan \in ResourceInputs, fq \in FaultScripts :
          /\ plan.id = <<>>
          /\ \E r \in {Create(World(fq), cfg, cfg.q,
                                [name |-> plan.name, type |-> plan.type,
                                 value |-> plan.value, ttl |-> plan.ttl,
                                 zone |-> plan.zone])} :
                Respond("Create", plan, r)

\* The planned model of an update of the ttl.
InvokeUpdate ==
    /\ last.op = "none"
    /\ tf.present
    /\ \E fq \in FaultScripts :
       \E r \in {Update(World(fq), cfg, cfg.q, [tf.data EXCEPT !.ttl = 300])} :
          Respond("Update", [tf.data EXCEPT !.ttl = 300], r)

InvokeDelete ==
    /\ last.op = "none"
    /\ tf.present
    /\ \E fq \in FaultScripts :
       \E r \in {Delete(World(fq), cfg, cfg.q, tf.data)} :
          Respond("Delete", tf.data, r)

InvokeRead ==
    /\ last.op = "none"
    /\ tf.present
    /\ \E fq \in FaultScripts :
       \E r \in {Read(World(fq), cfg, cfg.q, tf.data)} :
          Respond("Read", tf.data, r)

NextInputs == InvokeCreate \/ InvokeRead \/ InvokeUpdate \/ InvokeDelete

SpecInputs == InitInputs /\ [][NextInputs]_vars

\* Nothing was sent, the remote zone and the tracked state are as they were.
NothingDone ==
    /\ last.sent = <<>>
    /\ zone = last.pre
    /\ last.out = "keep"
    /\ tf.present = (last.op # "Create")
    /\ tf.present => tf.data = [last.input EXCEPT !.ttl = tf.data.ttl]

\* C14: Update and Delete invoked with a tracked identifier that is empty,
\* not a number, zero or negative end with a fatal validation error, send no
\* request and leave the tracked state and the remote zone as they were.
C14_BadIdentifierRefused ==
    (last.op \in {"Update", "Delete"} /\ last.input.id \in BadIds) =>
        /\ Len(last.errors) = 1
        /\ last.errors[1] \in {"Validation Error", "Invalid Record ID"}
        /\ NothingDone

C14_Witness ==
    /\ last.op = "Delete"
    /\ last.input.id = <<"-", "1">>
    /\ last.input.zone = ZoneName
    /\ last.errors = <<"Invalid Record ID">>
    /\ zone # <<>>

IsBlank(s) == \A i \in DOMAIN s : s[i] = " "

\* C15: Create and Update invoked with a name, type, value or zone that is
\* empty or all blanks end with a fatal validation error before any network
\* call: nothing is sent and no state is written.
C15_BlankFieldRefused ==
    (/\ last.op \in {"Create", "Update"}
     /\ \/ IsBlank(last.input.name) \/ IsBlank(last.input.type)
        \/ IsBlank(last.input.value) \/ IsBlank(last.input.zone)) =>
        /\ last.errors = <<"Validation Error">>
        /\ NothingDone

C15_Witness ==
    /\ last.op = "Create"
    /\ last.input.name = <<"w">>
    /\ last.input.type = <<"A">>
    /\ last.input.value = <<" ">>
    /\ last.input.zone = ZoneName
    /\ last.errors = <<"Validation Error">>

(***************************************************************************)
(* Specification SpecClient: the client's calls made one at a time         *)
(* against the remote, each under a script of faults as long as the retry  *)
(* loop can run.                                                           *)
(***************************************************************************)
AttemptFaults == {"pass", "neterr", "h500"}
ClientFaultScripts == SeqsUpTo(AttemptFaults, MaxRetries + 1)

ClientRecords ==
    {[NoRecord EXCEPT !.name = <<"w">>, !.type = <<"A">>, !.value = v, !.ttl = 60,
                      !.zone = ZoneName] : v \in {<<"1">>, <<"2">>}}

InitClient ==
    /\ zone = <<>>
    /\ nextId = 1
    /\ tf = NoState
    /\ last = NoOp
    /\ cfg \in [retries : 0..MaxRetries, delay : {1}, backoff : {2}, auth : {Credentials},
                q : ClientRemotes]
    /\ MatchIdle
    /\ ClientIdle
    /\ Sequential

\* The call's result r becomes the new state of the remote and of `last`.
Returned(op, record, r) ==
    /\ zone' = r.w.zone
    /\ nextId' = r.w.nextId
    /\ last' = [NoOp EXCEPT !.op = op, !.pre = zone, !.err = r.err, !.sent = r.w.sent,
                            !.input = [NoData EXCEPT !.id = Itoa(record.id),
                                                     !.name = record.name,
                                                     !.type = record.type,
                                                     !.value = record.value]]
    /\ UNCHANGED <<tf, cfg, mIn, mOut, mu, call, wire, trail, ops>>

CallGetDNSZone ==
    \E fq \in ClientFaultScripts :
    \E r \in {GetDNSZone(World(fq), cfg, cfg.q, ZoneName)} :
       Returned("GetDNSZone", NoRecord, r)

CallCreateDNSRecord ==
    /\ nextId <= MaxId
    /\ \E record \in ClientRecords, fq \in ClientFaultScripts :
       \E r \in {CreateDNSRecord(World(fq), cfg, cfg.q, record)} :
          Returned("CreateDNSRecord", record, r)

CallUpdateDNSRecord ==
    \E record \in ClientRecords, id \in 1..MaxId, fq \in ClientFaultScripts :
    \E r \in {UpdateDNSRecord(World(fq), cfg, cfg.q, [record EXCEPT !.id = id])} :
       Returned("UpdateDNSRecord", [record EXCEPT !.id = id], r)

CallDeleteDNSRecord ==
    \E id \in 1..MaxId, fq \in ClientFaultScripts :
    \E r \in {DeleteDNSRecord(World(fq), cfg, cfg.q, id, ZoneName)} :
       Returned("DeleteDNSRecord", [NoRecord EXCEPT !.id = id], r)

NextClient ==
    \/ CallGetDNSZone
    \/ CallCreateDNSRecord
    \/ CallUpdateDNSRecord
    \/ CallDeleteDNSRecord

SpecClient == InitClient /\ [][NextClient]_vars

\* The attempts of the last client method, one sequence for each of its
\* calls of makeRequest: a call's attempts are numbered from 1.
CallStarts == {i \in DOMAIN last.sent : last.sent[i].attempt = 1}
CallEnd(i) ==
    IF \E j \in CallStarts : j > i
    THEN (CHOOSE j \in CallStarts : j > i /\ \A k \in CallStarts : k > i => j <= k) - 1
    ELSE Len(last.sent)
AttemptFailed(a) == a.status = 0 \/ a.status >= 400

\* C7: with N retries configured, a call whose every attempt fails (transport
\* error or HTTP status >= 400) makes exactly N+1 attempts and reports
\* failure; a call makes no attempt after its first successful one, so if
\* attempt k <= N+1 is the first to succeed exactly k attempts are made.
C7_RetryBound ==
    \A i \in CallStarts :
        /\ CallEnd(i) - i + 1 <= cfg.retries + 1
        /\ \A j \in i..(CallEnd(i) - 1) : AttemptFailed(last.sent[j])
        /\ \A j \in i..CallEnd(i) : last.sent[j].attempt = j - i + 1
        /\ AttemptFailed(last.sent[CallEnd(i)]) =>
              /\ CallEnd(i) - i + 1 = cfg.retries + 1
              /\ CallEnd(i) = Len(last.sent)
              /\ last.err # NoErr

\* C7 witnesses: every attempt failed with retries configured; and a retry
\* that was the first attempt to succeed.
C7_Witness ==
    /\ cfg.retries > 0
    /\ Len(last.sent) = cfg.retries + 1
    /\ \A j \in DOMAIN last.sent : AttemptFailed(last.sent[j])
    /\ last.sent[1].status = 500
    /\ last.err # NoErr

C7_WitnessRecovered ==
    /\ cfg.retries > 0
    /\ Len(last.sent) = 2
    /\ AttemptFailed(last.sent[1])
    /\ last.sent[2].attempt = 2
    /\ ~AttemptFailed(last.sent[2])
    /\ last.err = NoErr

\* C33: every attempt of one client call, each retry included, sends the
\* request of the call's first attempt: the same method, the same URL and
\* the same complete JSON body.
C33_RetriesResendRequest ==
    \A i \in CallStarts :
        \A j \in i..CallEnd(i) :
            /\ last.sent[j].method = last.sent[i].method
            /\ last.sent[j].id = last.sent[i].id
            /\ last.sent[j].body = last.sent[i].body

\* C5: a delete request the remote answers with "not found" is sent once,
\* whatever the retry count.
C5_NotFoundDeleteSentOnce ==
    (/\ last.op = "DeleteDNSRecord"
     /\ last.sent # <<>>
     /\ last.sent[1].status \in {200, 404}
     /\ ~HasId(last.pre, Atoi(last.input.id).n)) =>
        Len(last.sent) = 1

(***************************************************************************)
(* Specification SpecDeleteCall: one DeleteDNSRecord, answered by the      *)
(* remote with the application code 200, 201, 404 or 500.                  *)
(***************************************************************************)
DeleteAnswers == {"pass", "code201", "h500", "neterr"}

DeleteCallZones ==
    {<<>>} \cup {<<[id |-> i, name |-> <<"w">>, type |-> <<"A">>, value |-> v, ttl |-> 300]>> :
                   i \in 1..MaxId, v \in {<<"1">>, <<"2">>}}

InitDeleteCall ==
    /\ zone \in DeleteCallZones
    /\ nextId = MaxId + 1
    /\ tf = NoState
    /\ last = NoOp
    /\ cfg \in [retries : 0..MaxRetries, delay : {1}, backoff : {2}, auth : {Credentials},
                q : ClientRemotes]
    /\ MatchIdle
    /\ ClientIdle
    /\ Sequential

CallDelete ==
    /\ last.op = "none"
    /\ \E id \in 1..MaxId, fq \in SeqsUpTo(DeleteAnswers, MaxRetries + 1) :
       \E r \in {DeleteDNSRecord(World(fq), cfg, cfg.q, id, ZoneName)} :
          Returned("DeleteDNSRecord", [NoRecord EXCEPT !.id = id], r)

NextDeleteCall == CallDelete

SpecDeleteCall == InitDeleteCall /\ [][NextDeleteCall]_vars

\* The answer DeleteDNSRecord was given: that of the call's last attempt,
\* which reached the client as the API's JSON.
DeleteAnswered ==
    /\ last.op = "DeleteDNSRecord"
    /\ last.sent # <<>>
    /\ last.sent[Len(last.sent)].json

\* C38: DeleteDNSRecord reports success where the answer's application code
\* is 200 or 201, and an error for every other code.
C38_DeleteSuccessCodes ==
    DeleteAnswered =>
        (last.err = NoErr <=> last.sent[Len(last.sent)].code \in {200, 201})

(***************************************************************************)
(* Properties of Create's searches and of its handling of the create call, *)
(* on specification Spec.                                                  *)
(***************************************************************************)
\* The attempts of the last Create's initial zone fetch are 1..CallEnd(1).
InitialFetchFailed ==
    /\ last.op = "Create"
    /\ last.sent # <<>>
    /\ last.sent[1].method = "GET"
    /\ AttemptFailed(last.sent[CallEnd(1)])

\* The positions in the log of the requests of one kind.
SentAt(method) == {i \in DOMAIN last.sent : last.sent[i].method = method}

\* The create request was sent and got an answer; Refused: a refusal.
CreateAnswered == \E i \in SentAt("POST") : last.sent[i].status # 0
CreateRefused == \E i \in SentAt("POST") : last.sent[i].code \notin {0, 200, 500}

CreateAccepted == \E i \in SentAt("POST") : last.sent[i].code = 200

\* The zone fetches Create made after a create request that was not
\* accepted (after an accepted one, the client fetches the zone to learn
\* the identifier).
FetchesAfterCreate ==
    IF CreateAccepted THEN {}
    ELSE {i \in SentAt("GET") :
            last.sent[i].attempt = 1 /\ \E j \in SentAt("POST") : j < i}
RefetchAnswered ==
    /\ ~CreateAccepted
    /\ \E i \in SentAt("GET") : /\ \E j \in SentAt("POST") : j < i
                                 /\ last.sent[i].status = 200

\* C16: whenever one of Create's zone searches matches a record whose
\* identifier is not positive (the remote lists records without their
\* identifiers), Create fails with "Invalid Record ID", sends no update and
\* writes no state.
C16_InvalidFoundIdFatal ==
    (/\ last.op = "Create"
     /\ ~cfg.q.listIds
     /\ Matching(last.pre, last.input) # {}
     /\ InitialFetchAnswered \/ RefetchAnswered) =>
        /\ last.errors = <<"Invalid Record ID">>
        /\ SentAt("PUT") = {}
        /\ last.out = "keep"

\* The identifier written to state is a positive integer.
PositiveId(id) == Atoi(id).ok /\ Atoi(id).n > 0

\* C17: whenever Create or Update completes without an error diagnostic,
\* the identifier written to the tracked state is a positive integer.
C17_WrittenIdPositive ==
    (last.op \in {"Create", "Update"} /\ last.errors = <<>> /\ last.out = "set") =>
        PositiveId(last.data.id)

\* The phrases of a conflict as the claim lists them, and as the test reads.
ClaimedConflictPhrases ==
    {<<"cannot", "add">>, <<"invalid", "record">>, <<"already", "exists">>, <<"duplicate">>}
ConflictPhrases ==
    {<<"cannot", "add", "record">>, <<"record", "invalid">>, <<"already", "exists">>,
     <<"duplicate">>}
Mentions(err, phrases) == \E ph \in phrases : Contains(ToLowerText(err), ph)

\* The last Create found no match at first and its create call failed.
CreateCallFailed ==
    /\ last.op = "Create"
    /\ SentAt("POST") # {}
    /\ last.err # NoErr

\* What follows a failed create call, for a given list of conflict phrases.
\* The record the repeated search finds is the first match of the zone,
\* which a refused create left as it was.
ConflictHandling(phrases) ==
    CreateCallFailed =>
        IF Mentions(last.err, phrases)
        THEN /\ Cardinality(FetchesAfterCreate) = 1
             /\ IF RefetchAnswered /\ Matching(last.pre, last.input) # {}
                THEN cfg.q.listIds =>
                        /\ last.errors = <<>>
                        /\ last.out = "set"
                        /\ last.warnings = <<"Adopted Existing DNS Record">>
                        /\ last.data.id = Itoa(Found.id)
                        /\ (Found.value = Desired.value) => SentAt("PUT") = {}
                        /\ (Found.value # Desired.value) => SentTo("PUT", Found.id)
                ELSE last.errors = <<"Client Error">> /\ last.out = "keep"
        ELSE /\ FetchesAfterCreate = {}
             /\ last.errors = <<"Client Error">>
             /\ last.out = "keep"

C18_WitnessNoConflict ==
    /\ CreateCallFailed
    /\ ~Mentions(last.err, ConflictPhrases)
    /\ last.errors = <<"Client Error">>

\* C19: if the record found after a create conflict has another value and
\* the update call for it fails, Create ends with an error diagnostic and
\* does not set the state.
C19_FailedRecoveryFatal ==
    (/\ CreateCallFailed
     /\ CreateRefused
     /\ SentAt("PUT") # {}
     /\ \A i \in SentAt("PUT") : last.sent[i].status # 200) =>
        /\ last.errors # <<>>
        /\ last.out # "set"

\* C20: if the initial zone fetch of Create fails, the create request is
\* the next one sent and decides the outcome: a record created and found
\* with a positive identifier is written to state, and the only errors are
\* those of the create call.
C20_FetchFailureFallsThrough ==
    InitialFetchFailed =>
        /\ Len(last.sent) > CallEnd(1)
        /\ last.sent[CallEnd(1) + 1].method = "POST"
        /\ last.errors \in {<<>>, <<"Client Error">>, <<"Invalid Created Record ID">>}
        /\ (last.errors = <<"Client Error">>) => last.err # NoErr
        /\ (last.err = NoErr /\ cfg.q.listIds) =>
               /\ last.errors = <<>>
               /\ last.out = "set"
               /\ PositiveId(last.data.id)
               /\ HasId(zone, Atoi(last.data.id).n)
               /\ SentAt("PUT") = {}

C20_Witness ==
    /\ InitialFetchFailed
    /\ last.err = NoErr
    /\ last.path = "created_new"
    /\ Len(zone) = Len(last.pre) + 1

(***************************************************************************)
(* Properties of Read, on specifications SpecInputs and Spec.              *)
(***************************************************************************)
\* The last operation was a Read of a state whose identifier is missing, no
\* number, zero or negative.
ReadTrackedIdInvalid == last.op = "Read" /\ ~PositiveId(last.input.id)

\* The records of the zone before the operation with exactly the tracked
\* name and type, by position.
ExactMatches ==
    {i \in DOMAIN last.pre : /\ last.pre[i].name = last.input.name
                             /\ last.pre[i].type = last.input.type}
FirstExactMatch == last.pre[CHOOSE i \in ExactMatches : \A j \in ExactMatches : i <= j]

\* The last request of the operation was answered with the zone's listing.
LastFetchAnswered ==
    /\ last.sent # <<>>
    /\ last.sent[Len(last.sent)].method = "GET"
    /\ last.sent[Len(last.sent)].status = 200
    /\ last.sent[Len(last.sent)].code = 200

\* One call of the client, a fetch of the zone; a match by name and type is
\* written with the tracked zone, anything else removes the resource.
SearchedByNameOnly ==
    /\ Cardinality(CallStarts) = 1
    /\ \A i \in DOMAIN last.sent : last.sent[i].method = "GET"
    /\ last.errors = <<>>
    /\ IF LastFetchAnswered /\ ExactMatches # {}
       THEN /\ last.out = "set"
            /\ last.data = [id |-> Itoa(IF cfg.q.listIds THEN FirstExactMatch.id ELSE 0),
                            name |-> FirstExactMatch.name, type |-> FirstExactMatch.type,
                            value |-> FirstExactMatch.value, ttl |-> FirstExactMatch.ttl,
                            zone |-> last.input.zone]
            /\ tf = [present |-> TRUE, data |-> last.data]
       ELSE last.out = "remove" /\ ~tf.present

\* C21, as stated: a Read of a state whose identifier is missing, no number,
\* zero or negative makes one fetch of the zone and no lookup, writes the
\* record found by name and type with the tracked zone, and removes the
\* resource if there is none.
C21_AsClaimed == ReadTrackedIdInvalid => SearchedByNameOnly

\* C21, amended: the same for a state whose zone is not empty.
C21_InvalidIdSearchesByName ==
    (ReadTrackedIdInvalid /\ last.input.zone # <<>>) => SearchedByNameOnly

\* C21 witness: a state with a negative identifier, the record found by its
\* name and type and its identifier written.
C21_Witness ==
    /\ last.op = "Read"
    /\ last.input.id = <<"-", "1">>
    /\ last.input.zone = ZoneName
    /\ last.out = "set"
    /\ last.data.id = <<"1">>
    /\ tf.data.id = <<"1">>

\* The last request of the operation failed or was refused.
LastFetchFailed ==
    /\ last.sent # <<>>
    /\ \/ AttemptFailed(last.sent[Len(last.sent)])
       \/ last.sent[Len(last.sent)].code # 200

\* The record is in the zone neither under the tracked identifier nor under
\* the tracked name and type.
TrackedRecordGone ==
    /\ ExactMatches = {}
    /\ ~(PositiveId(last.input.id) /\ HasId(last.pre, Atoi(last.input.id).n))

\* C22: a Read of a state with a zone reports no error diagnostic; if a
\* fetch of it fails, or the record is found neither by its identifier nor
\* by its name and type, the resource is removed from the state.
C22_ReadNeverErrors ==
    (last.op = "Read" /\ last.input.zone # <<>>) =>
        /\ last.errors = <<>>
        /\ last.out \in {"set", "remove"}
        /\ (LastFetchFailed \/ TrackedRecordGone) => (last.out = "remove" /\ ~tf.present)

\* C22 witness: the lookup fails at the transport while the record is in the
\* zone under the tracked identifier; the resource is removed without an
\* error.
C22_Witness ==
    /\ last.op = "Read"
    /\ PositiveId(last.input.id)
    /\ HasId(zone, Atoi(last.input.id).n)
    /\ LastFetchFailed
    /\ last.sent[Len(last.sent)].status = 0
    /\ last.out = "remove"
    /\ last.errors = <<>>
    /\ ~tf.present

(***************************************************************************)
(* Specification SpecImport: the record is created, then imported into a   *)
(* fresh state under an import identifier and read there, as               *)
(* ImportStateVerify does; tf keeps what Create left.                      *)
(***************************************************************************)
\* strings.Index(s, sep) for a one-character separator, 0 where absent.
RECURSIVE Index(_, _)
Index(s, sep) ==
    IF s = <<>> THEN 0
    ELSE IF Head(s) = sep THEN 1
    ELSE IF Index(Tail(s), sep) = 0 THEN 0 ELSE 1 + Index(Tail(s), sep)

\* The state an import starts from has every attribute null;
\* resp.State.SetAttribute fills id and, in the new format, zone.
Imported(id, zoneName) == [NoData EXCEPT !.id = id, !.zone = zoneName]

\* ImportState: strconv.Atoi(recordID) returns no error.
ImportAcceptsID(recordID) == Atoi(recordID).ok

\* ImportState(importID): "zone:record_id", or the legacy "record_id".
ImportState(w, importID) ==
    IF Index(importID, ":") # 0
    THEN LET k        == Index(importID, ":")
             zoneName == TrimSpace(SubSeq(importID, 1, k - 1))
             recordID == TrimSpace(SubSeq(importID, k + 1, Len(importID)))
         IN  IF zoneName = <<>> \/ recordID = <<>>
             THEN Fail(w, NoData, "Invalid Import ID Format", "import_empty_part")
             ELSE IF ~ImportAcceptsID(recordID)
             THEN Fail(w, NoData, "Invalid Record ID", "import_invalid_id")
             ELSE Result(w, "set", Imported(recordID, zoneName), <<>>, <<>>, "imported")
    ELSE IF ~ImportAcceptsID(importID)
    THEN Fail(w, NoData, "Invalid Record ID", "import_legacy_invalid_id")
    ELSE Result(w, "set", Imported(importID, <<>>), <<>>,
                <<"Zone Information Missing">>, "imported_legacy")

ImportRemotes == ClientRemotes

\* Import identifiers: zone and record in the new format, with blanks, with
\* a part missing or no number, and the legacy format.
ImportRecordIDs == {<<"1">>, <<"2">>, <<"+", "1">>, <<"0">>, <<"x">>, <<>>, <<" ">>}
ImportIDs ==
    {ZoneName \o <<":">> \o id : id \in ImportRecordIDs}
        \cup {<<" ">> \o ZoneName \o <<" ", ":", " ", "1", " ">>,
              <<":", "1">>, <<" ", ":", "1">>, ZoneName \o <<":", "1", ":", "2">>,
              <<"1">>, <<"x">>, <<" ", "1">>}

InitImport ==
    /\ \/ zone = <<>> /\ nextId = 1
       \/ /\ zone = <<[id |-> 1, name |-> <<"w">>, type |-> <<"A">>, value |-> <<"9">>,
                        ttl |-> 300]>>
          /\ nextId = 2
    /\ tf = NoState
    /\ last = NoOp
    /\ cfg \in [retries : {0, MaxRetries}, delay : {1}, backoff : {2}, auth : {Credentials},
                q : ImportRemotes]
    /\ MatchIdle
    /\ ClientIdle
    /\ Sequential

CreateFirst ==
    /\ last.op = "none"
    /\ ~tf.present
    /\ \E plan \in Plans, fq \in FaultScripts :
       \E r \in {Create(World(fq), cfg, cfg.q, plan)} :
          Respond("Create", [NoData EXCEPT !.name = plan.name, !.type = plan.type,
                                           !.value = plan.value, !.ttl = plan.ttl,
                                           !.zone = plan.zone], r)

\* terraform import: req.ID is kept in input.id, the state the import fills
\* in data.
ImportInvoked ==
    /\ last.op \in {"none", "Create"}
    /\ \E importID \in ImportIDs :
       \E r \in {ImportState(World(<<>>), importID)} :
          last' = [NoOp EXCEPT !.op = "ImportState", !.input = [NoData EXCEPT !.id = importID],
                               !.pre = zone, !.out = r.out, !.path = r.path,
                               !.errors = r.errors, !.warnings = r.warnings,
                               !.data = r.data]
    /\ UNCHANGED <<zone, nextId, tf, cfg, mIn, mOut, mu, call, wire, trail, ops>>

\* The refresh that follows an import, on the imported state.
ImportedRead ==
    /\ last.op = "ImportState"
    /\ last.errors = <<>>
    /\ \E fq \in FaultScripts :
       \E r \in {Read(World(fq), cfg, cfg.q, last.data)} :
          /\ zone' = r.w.zone
          /\ nextId' = r.w.nextId
          /\ last' = [NoOp EXCEPT !.op = "ImportRead", !.input = last.data, !.pre = zone,
                                  !.out = r.out, !.path = r.path, !.errors = r.errors,
                                  !.warnings = r.warnings, !.sent = r.w.sent,
                                  !.data = r.data]
    /\ UNCHANGED <<tf, cfg, mIn, mOut, mu, call, wire, trail, ops>>

NextImport == CreateFirst \/ ImportInvoked \/ ImportedRead

SpecImport == InitImport /\ [][NextImport]_vars

\* The import identifier's parts, where it has a colon.
ImportZonePart == TrimSpace(SubSeq(last.input.id, 1, Index(last.input.id, ":") - 1))
ImportRecordPart ==
    TrimSpace(SubSeq(last.input.id, Index(last.input.id, ":") + 1, Len(last.input.id)))

\* The imported state names the record Create left in tf, under its zone.
ImportedCreated ==
    /\ last.op = "ImportRead"
    /\ tf.present
    /\ PositiveId(tf.data.id)
    /\ Atoi(last.input.id).ok
    /\ Atoi(last.input.id).n = Atoi(tf.data.id).n
    /\ last.input.zone = ZoneName

\* C27 as claimed: an import by zone:record_id sets exactly the identifier
\* and the zone; the Read that follows the import of the record Create left
\* yields the state Create left; an import identifier with an empty zone, an
\* empty or a non-numeric record part is refused with an error and sets no
\* attribute.
C27_ImportRoundTrip ==
    /\ (last.op = "ImportState" /\ Index(last.input.id, ":") # 0) =>
          IF ImportZonePart # <<>> /\ Atoi(ImportRecordPart).ok
          THEN /\ last.errors = <<>>
               /\ last.out = "set"
               /\ last.data = [NoData EXCEPT !.id = ImportRecordPart, !.zone = ImportZonePart]
          ELSE /\ last.errors # <<>>
               /\ last.out = "keep"
               /\ last.data = NoData
    /\ (ImportedCreated /\ LastFetchAnswered) =>
          /\ last.errors = <<>>
          /\ last.out = "set"
          /\ last.data = tf.data

(***************************************************************************)
(* Specification SpecLifecycle: the record is created, updated to a new    *)
(* value and read twice, each step taken once the step before it has left  *)
(* a tracked record; no other party touches the zone and the remote never  *)
(* renumbers a record.  trail keeps what each step was given and left.     *)
(***************************************************************************)
\* The remote of the tests, and one whose update answer carries no
\* identifier.
LifecycleRemotes == {TestServer, [TestServer EXCEPT !.echoId = FALSE]}

\* A step meets no fault, or one at its first attempt.
LifecycleFaults == {<<>>} \cup {<<f>> : f \in FaultKinds}

InitLifecycle ==
    /\ \/ zone = <<>> /\ nextId = 1
       \/ /\ zone = <<[id |-> 1, name |-> <<"w">>, type |-> <<"A">>, value |-> <<"9">>,
                        ttl |-> 300]>>
          /\ nextId = 2
    /\ tf = NoState
    /\ last = NoOp
    /\ cfg \in [retries : {0, MaxRetries}, delay : {1}, backoff : {2}, auth : {Credentials},
                q : LifecycleRemotes]
    /\ MatchIdle
    /\ ClientIdle
    /\ Sequential

\* The handler's response r to `op` on `input` becomes the new state and the
\* next entry of the trail.
Step(op, input, r) ==
    /\ zone' = r.w.zone
    /\ nextId' = r.w.nextId
    /\ tf' = StateAfter(r, tf)
    /\ last' = [op |-> op, input |-> input, pre |-> zone, out |-> r.out,
                path |-> r.path, errors |-> r.errors, warnings |-> r.warnings,
                err |-> r.err, sent |-> r.w.sent, data |-> r.data, prev |-> NoPrev]
    /\ trail' = Append(trail, [op |-> op, input |-> input, out |-> r.out,
                               errors |-> r.errors, data |-> StateAfter(r, tf).data])
    /\ UNCHANGED <<cfg, mIn, mOut, mu, call, wire, ops>>

\* The step before left a tracked record and no error.
StepDone(n) ==
    /\ Len(trail) = n
    /\ trail[n].errors = <<>>
    /\ trail[n].out = "set"
    /\ tf.present

LifeCreate ==
    /\ trail = <<>>
    /\ \E plan \in Plans, fq \in LifecycleFaults :
       \E r \in {Create(World(fq), cfg, cfg.q, plan)} :
          Step("Create", [NoData EXCEPT !.name = plan.name, !.type = plan.type,
                                        !.value = plan.value, !.ttl = plan.ttl,
                                        !.zone = plan.zone], r)

\* The planned model of the update: the state with a new value.
LifeUpdate ==
    /\ StepDone(1)
    /\ \E value \in {p.value : p \in Plans}, fq \in LifecycleFaults :
          /\ value # tf.data.value
          /\ \E r \in {Update(World(fq), cfg, cfg.q, [tf.data EXCEPT !.value = value])} :
                Step("Update", [tf.data EXCEPT !.value = value], r)

LifeRead ==
    /\ StepDone(2) \/ StepDone(3)
    /\ \E fq \in LifecycleFaults :
       \E r \in {Read(World(fq), cfg, cfg.q, tf.data)} :
          Step("Read", tf.data, r)

NextLifecycle == LifeCreate \/ LifeUpdate \/ LifeRead

SpecLifecycle == InitLifecycle /\ [][NextLifecycle]_vars

\* The steps of the trail that left a tracked record without an error.
Kept == {i \in DOMAIN trail : trail[i].errors = <<>> /\ trail[i].out = "set"}

\* C30 as claimed: through Create, Update to a new value, Read and Read on
\* a remote that never renumbers, every step that leaves a tracked record
\* leaves the identifier Create assigned; each Read leaves the updated value
\* with the name and type Create left; the second Read leaves the record the
\* first left.
C30_LifecycleKeepsIdentity ==
    /\ \A i \in Kept : trail[i].data.id = trail[1].data.id
    /\ \A i \in Kept : trail[i].op = "Read" =>
          /\ trail[i].data.value = trail[2].input.value
          /\ trail[i].data.name = trail[1].data.name
          /\ trail[i].data.type = trail[1].data.type
    /\ ({3, 4} \subseteq Kept) => trail[4].data = trail[3].data

(***************************************************************************)
(* Specification SpecDeletion: the record is created and deleted; the      *)
(* deleted identifier is then looked up, the record the state tracked is   *)
(* read, and the record is created again from the same plan.  The zone     *)
(* starts empty, with one record of the name or with two of them.          *)
(***************************************************************************)
DeletionZones ==
    {SubSeq(<<[id |-> 1, name |-> <<"w">>, type |-> <<"A">>, value |-> <<"9">>, ttl |-> 300],
              [id |-> 2, name |-> <<"w">>, type |-> <<"A">>, value |-> <<"9">>, ttl |-> 300]>>,
            1, n) : n \in 0..2}

InitDeletion ==
    /\ zone \in DeletionZones
    /\ nextId = Len(zone) + 1
    /\ tf = NoState
    /\ last = NoOp
    /\ cfg \in [retries : {0, MaxRetries}, delay : {1}, backoff : {2}, auth : {Credentials},
                q : {TestServer}]
    /\ MatchIdle
    /\ ClientIdle
    /\ Sequential

\* The Delete of the trail's second step went through.
Deleted ==
    /\ Len(trail) >= 2
    /\ trail[2].op = "Delete"
    /\ trail[2].errors = <<>>
    /\ trail[2].out = "remove"

DelCreate ==
    /\ trail = <<>>
    /\ \E plan \in Plans, fq \in LifecycleFaults :
       \E r \in {Create(World(fq), cfg, cfg.q, plan)} :
          Step("Create", [NoData EXCEPT !.name = plan.name, !.type = plan.type,
                                        !.value = plan.value, !.ttl = plan.ttl,
                                        !.zone = plan.zone], r)

DelDelete ==
    /\ StepDone(1)
    /\ \E fq \in LifecycleFaults :
       \E r \in {Delete(World(fq), cfg, cfg.q, tf.data)} :
          Step("Delete", tf.data, r)

\* GetDNSRecord for the identifier the Delete was given; its error is kept
\* in the trail's errors.
DelLookup ==
    /\ Len(trail) = 2
    /\ Deleted
    /\ \E g \in {GetDNSRecord(World(<<>>), cfg, cfg.q, TrimSpace(trail[2].input.zone),
                              trail[2].input.id)} :
          /\ last' = [NoOp EXCEPT !.op = "GetDNSRecord", !.input = trail[2].input,
                                  !.pre = zone, !.err = g.err, !.sent = g.w.sent]
          /\ trail' = Append(trail, [op |-> "GetDNSRecord", input |-> trail[2].input,
                                     out |-> "keep", errors |-> g.err, data |-> NoData])
    /\ UNCHANGED <<zone, nextId, tf, cfg, mIn, mOut, mu, call, wire, ops>>

\* Read of the record the state tracked before the Delete.
DelRead ==
    /\ Len(trail) = 3
    /\ \E r \in {Read(World(<<>>), cfg, cfg.q, trail[2].input)} :
          Step("Read", trail[2].input, r)

\* Create from the plan of the first step.
DelCreateAgain ==
    /\ Len(trail) = 4
    /\ \E fq \in LifecycleFaults :
       \E r \in {Create(World(fq), cfg, cfg.q,
                        [name |-> trail[1].input.name, type |-> trail[1].input.type,
                         value |-> trail[1].input.value, ttl |-> trail[1].input.ttl,
                         zone |-> trail[1].input.zone])} :
          Step("Create", trail[1].input, r)

NextDeletion == DelCreate \/ DelDelete \/ DelLookup \/ DelRead \/ DelCreateAgain

SpecDeletion == InitDeletion /\ [][NextDeletion]_vars

\* The records of the zone with exactly the name and type of `data`, and
\* those with its normalised name and type.
ExactlyNamed(records, data) ==
    {i \in DOMAIN records : records[i].name = data.name /\ records[i].type = data.type}
Named(records, data) == {i \in DOMAIN records : IdentityMatch(data, records[i])}

DeletedId == Atoi(TrimSpace(trail[2].input.id)).n

\* C31 as claimed: after an accepted Delete the identifier is gone from the
\* zone, its lookup fails as not found, the Read that follows signals the
\* resource absent, and the Create that follows leaves exactly one record of
\* the name and type.
C31_DeletedReentersAbsent ==
    /\ Deleted => ~HasId(zone, DeletedId)
    /\ (Deleted /\ Len(trail) >= 3) => trail[3].errors = ErrIdNotFound
    /\ Len(trail) >= 4 => (trail[4].errors = <<>> /\ trail[4].out = "remove")
    /\ (Len(trail) = 5 /\ last.errors = <<>>) =>
          /\ last.out = "set"
          /\ Cardinality(Named(zone, trail[1].input)) = 1

\* C31, amended: after an accepted Delete the identifier is gone from the
\* zone and its lookup fails as not found.  Where the Delete left no record
\* of the name and type, the Read that follows signals the resource absent
\* and the Create that follows leaves exactly one such record.  Where it
\* left some, the Read writes the first with exactly the tracked name and
\* type if there is one, and a Create whose zone fetch is answered updates
\* the first in place and adds none.
C31_DeletedThenRead ==
    /\ Deleted => ~HasId(zone, DeletedId)
    /\ (Deleted /\ Len(trail) >= 3) => trail[3].errors = ErrIdNotFound
    /\ Len(trail) >= 4 =>
          /\ trail[4].errors = <<>>
          /\ IF ExactlyNamed(last.pre, trail[4].input) = {}
             THEN trail[4].out = "remove"
             ELSE /\ trail[4].out = "set"
                  /\ \E i \in ExactlyNamed(last.pre, trail[4].input) :
                        /\ \A j \in ExactlyNamed(last.pre, trail[4].input) : i <= j
                        /\ trail[4].data.id = Itoa(last.pre[i].id)
    /\ (Len(trail) = 5 /\ last.errors = <<>>) =>
          /\ last.out = "set"
          /\ Named(last.pre, trail[1].input) = {} =>
                 Cardinality(Named(zone, trail[1].input)) = 1
          /\ (Named(last.pre, trail[1].input) # {} /\ InitialFetchAnswered) =>
                 /\ Len(zone) = Len(last.pre)
                 /\ \E i \in Named(last.pre, trail[1].input) :
                       /\ \A j \in Named(last.pre, trail[1].input) : i <= j
                       /\ last.data.id = Itoa(last.pre[i].id)
                       /\ \A j \in DOMAIN zone : j # i => zone[j] = last.pre[j]

\* C31 witness: the record was created, deleted, looked up in vain, read as
\* absent and created again, the zone holding one record of the name.
C31_Witness ==
    /\ Len(trail) = 5
    /\ trail[4].out = "remove"
    /\ last.out = "set" /\ last.errors = <<>>
    /\ Cardinality(Named(zone, trail[1].input)) = 1
    /\ ~HasId(zone, DeletedId)

(***************************************************************************)
(* Specification SpecDuplicates: one Create or one Read on a zone that     *)
(* holds two records of the name, spelled alike or differing in case.      *)
(***************************************************************************)
DuplicateZones ==
    {<<[id |-> 1, name |-> a, type |-> <<"A">>, value |-> <<"9">>, ttl |-> 300],
       [id |-> 2, name |-> b, type |-> <<"A">>, value |-> <<"9">>, ttl |-> 300]>> :
     a, b \in {<<"w">>, <<"W">>}}

\* What the state tracks: one of the two records, a record that is gone, or
\* no usable identifier.
DuplicateStates ==
    [id : {<<"1">>, <<"2">>, <<"3">>, <<"0">>}, name : {<<"w">>, <<"W">>}, type : {<<"A">>},
     value : {<<"9">>}, ttl : {300}, zone : {ZoneName}]

InitDuplicates ==
    /\ zone \in DuplicateZones
    /\ nextId = 3
    /\ tf \in {NoState} \cup [present : {TRUE}, data : DuplicateStates]
    /\ last = NoOp
    /\ cfg \in [retries : {0, MaxRetries}, delay : {1}, backoff : {2}, auth : {Credentials},
                q : {TestServer, [TestServer EXCEPT !.rejectDup = TRUE]}]
    /\ MatchIdle
    /\ ClientIdle
    /\ Sequential

DupCreate ==
    /\ last.op = "none"
    /\ ~tf.present
    /\ \E plan \in Plans, fq \in FaultScripts :
       \E r \in {Create(World(fq), cfg, cfg.q, plan)} :
          Respond("Create", [NoData EXCEPT !.name = plan.name, !.type = plan.type,
                                           !.value = plan.value, !.ttl = plan.ttl,
                                           !.zone = plan.zone], r)

DupRead ==
    /\ last.op = "none"
    /\ tf.present
    /\ \E fq \in FaultScripts :
       \E r \in {Read(World(fq), cfg, cfg.q, tf.data)} :
          Respond("Read", tf.data, r)

NextDuplicates == DupCreate \/ DupRead

SpecDuplicates == InitDuplicates /\ [][NextDuplicates]_vars

\* The first record of the zone before the operation that has the identity
\* of the operation's input.
FirstNamed == CHOOSE i \in Named(last.pre, last.input) :
                  \A j \in Named(last.pre, last.input) : i <= j

\* The zone is as before but for the first matching record.
OnlyFirstTouched ==
    /\ Len(zone) = Len(last.pre)
    /\ \A j \in DOMAIN zone : j # FirstNamed => zone[j] = last.pre[j]
    /\ zone[FirstNamed].id = last.pre[FirstNamed].id

\* Read searched the zone by name and type, and the zone was listed.
ReadSearched ==
    /\ last.op = "Read"
    /\ last.input.zone # <<>>
    /\ ~(PositiveId(last.input.id) /\ HasId(last.pre, Atoi(last.input.id).n))
    /\ LastFetchAnswered

\* C32 as claimed: where the zone fetched holds several records of the
\* desired or tracked identity, Create updates or adopts the first of them
\* and adds none, Read adopts the identifier of the first of them, and no
\* other record is changed.
C32_FirstMatchOnly ==
    Cardinality(Named(last.pre, last.input)) >= 2 =>
        /\ (last.op = "Create" /\ (InitialFetchAnswered \/ RefetchAnswered)) =>
              /\ OnlyFirstTouched
              /\ last.errors = <<>> =>
                    (last.out = "set" /\ last.data.id = Itoa(last.pre[FirstNamed].id))
        /\ ReadSearched =>
              /\ zone = last.pre
              /\ last.out = "set"
              /\ last.data.id = Itoa(last.pre[FirstNamed].id)

(***************************************************************************)
(* Read of a state without a zone, on specification SpecInputs.            *)
(***************************************************************************)
ReadWithoutZone == last.op = "Read" /\ last.input.zone = <<>>

ScriptLen == 4
AppliedFaults == {"late500", "lost"}
ResendScripts == SeqsUpTo(AttemptFaults \cup AppliedFaults, ScriptLen)

ResendZones ==
    {<<>>,
     <<[id |-> 1, name |-> <<"m">>, type |-> <<"A">>, value |-> <<"9">>, ttl |-> 300]>>,
     <<[id |-> 1, name |-> <<"w">>, type |-> <<"A">>, value |-> <<"9">>, ttl |-> 300]>>}

InitResend ==
    /\ zone \in ResendZones
    /\ nextId = 2
    /\ tf = NoState
    /\ last = NoOp
    /\ cfg \in [retries : {0, MaxRetries}, delay : {1}, backoff : {2}, auth : {Credentials},
                q : ClientRemotes]
    /\ MatchIdle
    /\ ClientIdle
    /\ Sequential

ResendCreate ==
    /\ last.op = "none"
    /\ \E plan \in Plans, fq \in ResendScripts :
       \E r \in {Create(World(fq), cfg, cfg.q, plan)} :
          Respond("Create", [NoData EXCEPT !.name = plan.name, !.type = plan.type,
                                           !.value = plan.value, !.ttl = plan.ttl,
                                           !.zone = plan.zone], r)

NextResend == ResendCreate

SpecResend == InitResend /\ [][NextResend]_vars

ReassignNames == {<<"w">>, <<"W">>, <<"m">>}
ReassignZones ==
    {<<[id |-> 1, name |-> a, type |-> <<"A">>, value |-> <<"9">>, ttl |-> 300],
       [id |-> 2, name |-> b, type |-> <<"A">>, value |-> <<"8">>, ttl |-> 300]>> :
     a, b \in ReassignNames}

\* The state as a Read that found the record by its identifier left it.
Tracked(rec) ==
    [present |-> TRUE,
     data |-> [id |-> Itoa(rec.id), name |-> rec.name, type |-> rec.type,
               value |-> rec.value, ttl |-> rec.ttl, zone |-> ZoneName]]

InitReassign ==
    /\ zone \in ReassignZones
    /\ nextId = 3
    /\ tf \in {Tracked(zone[i]) : i \in DOMAIN zone}
    /\ last = NoOp
    /\ cfg \in [retries : {0, MaxRetries}, delay : {1}, backoff : {2}, auth : {Credentials},
                q : {TestServer}]
    /\ MatchIdle
    /\ ClientIdle
    /\ Sequential

\* The remote reassigns identifiers: two records exchange theirs.
Reassign ==
    /\ last.op = "none"
    /\ zone' = [zone EXCEPT ![1].id = zone[2].id, ![2].id = zone[1].id]
    /\ last' = Outside
    /\ UNCHANGED <<nextId, tf, cfg, mIn, mOut, mu, call, wire, trail, ops>>

ReassignRead ==
    /\ last.op \in {"none", "outside"}
    /\ \E fq \in FaultScripts :
       \E r \in {Read(World(fq), cfg, cfg.q, tf.data)} :
          Respond("Read", tf.data, r)

NextReassign == Reassign \/ ReassignRead

SpecReassign == InitReassign /\ [][NextReassign]_vars

\* C35: when Read finds a record by the tracked identifier, the record it
\* writes to the state has the normalized name and type of the tracked
\* record.
C35_ReadKeepsIdentity ==
    (last.op = "Read" /\ last.path = "by_id") =>
        /\ last.out = "set"
        /\ IdentityMatch(last.data, last.input)

(***************************************************************************)
(* Specification SpecCreateCall: one call of CreateDNSRecord, on an empty  *)
(* zone or next to a record of the same name, under every script of faults *)
(* its two requests can meet, against the remote of the tests, one that    *)
(* stores names in lower case and one that lists no identifiers.           *)
(***************************************************************************)
CreateCallRemotes ==
    {TestServer, [TestServer EXCEPT !.folds = TRUE], [TestServer EXCEPT !.listIds = FALSE]}

CreateCallRecords ==
    {[NoRecord EXCEPT !.name = n, !.type = <<"A">>, !.value = <<"1">>, !.ttl = 60,
                      !.zone = ZoneName] : n \in {<<"w">>, <<"W">>}}

InitCreateCall ==
    /\ \/ zone = <<>> /\ nextId = 1
       \/ /\ zone = <<[id |-> 1, name |-> <<"w">>, type |-> <<"A">>, value |-> <<"9">>,
                        ttl |-> 300]>>
          /\ nextId = 2
    /\ tf = NoState
    /\ last = NoOp
    /\ cfg \in [retries : 0..MaxRetries, delay : {1}, backoff : {2}, auth : {Credentials},
                q : CreateCallRemotes]
    /\ MatchIdle
    /\ ClientIdle
    /\ Sequential

\* The call's result: the remote after it, the error and the record returned.
CreateCalled ==
    /\ last.op = "none"
    /\ \E record \in CreateCallRecords,
          fq \in SeqsUpTo(AttemptFaults, 2 * (cfg.retries + 1)) :
       \E r \in {CreateDNSRecord(World(fq), cfg, cfg.q, record)} :
          /\ zone' = r.w.zone
          /\ nextId' = r.w.nextId
          /\ last' = [NoOp EXCEPT !.op = "CreateDNSRecord", !.pre = zone, !.err = r.err,
                                  !.sent = r.w.sent,
                                  !.input = [NoData EXCEPT !.name = record.name,
                                                           !.type = record.type,
                                                           !.value = record.value],
                                  !.data = IF r.err = NoErr
                                           THEN FromRecord(NoData, r.rec, r.rec.zone)
                                           ELSE NoData]
    /\ UNCHANGED <<tf, cfg, mIn, mOut, mu, call, wire, trail, ops>>

NextCreateCall == CreateCalled

SpecCreateCall == InitCreateCall /\ [][NextCreateCall]_vars

\* The create request was accepted by the remote.
PostSucceeded ==
    \E i \in SentAt("POST") : last.sent[i].status = 200 /\ last.sent[i].code = 200

\* The records of the zone with exactly the created name and type.
CreatedMatches ==
    {i \in DOMAIN zone : zone[i].name = last.input.name /\ zone[i].type = last.input.type}
FirstCreatedMatch == zone[CHOOSE i \in CreatedMatches : \A j \in CreatedMatches : i <= j]

\* C26: CreateDNSRecord sends the create request first; if it fails no
\* fetch follows and an error is returned; if it succeeds the zone is
\* fetched by one call, and the record returned carries the identifier
\* listed for the first record with the created name and type; with the
\* fetch failed or no such record listed an error is returned and no record.
C26_CreateThenFind ==
    last.op = "CreateDNSRecord" =>
        /\ last.sent # <<>> /\ last.sent[1].method = "POST"
        /\ \A i \in SentAt("POST"), j \in SentAt("GET") : i < j
        /\ ~PostSucceeded => (SentAt("GET") = {} /\ last.err # NoErr /\ last.data = NoData)
        /\ PostSucceeded =>
              /\ Cardinality(SentAt("GET") \cap CallStarts) = 1
              /\ IF LastFetchAnswered /\ CreatedMatches # {}
                 THEN /\ last.err = NoErr
                      /\ last.data.id =
                             Itoa(IF cfg.q.listIds THEN FirstCreatedMatch.id ELSE 0)
                      /\ last.data.name = last.input.name
                 ELSE last.err # NoErr /\ last.data = NoData

\* C26 witness: the create request was accepted, the remote stored the name
\* in lower case, the fetch listed no record with the created name: an error
\* is returned although the record is in the zone.
C26_Witness ==
    /\ last.op = "CreateDNSRecord"
    /\ PostSucceeded
    /\ LastFetchAnswered
    /\ CreatedMatches = {}
    /\ Len(zone) = Len(last.pre) + 1
    /\ last.err # NoErr

\* C26 witness: the identifier found after an accepted create request.
C26_WitnessFound ==
    /\ last.op = "CreateDNSRecord"
    /\ last.pre = <<>>
    /\ last.err = NoErr
    /\ last.data.id = <<"1">>
    /\ Len(last.sent) = 2

(***************************************************************************)
(* Specification SpecRetry: one call of makeRequest, for a listing or a    *)
(* deletion, under every retry configuration and every script of faults    *)
(* as long as the retry loop can run.  A fault may also be an answer with  *)
(* an HTTP status below 400 that is no success (304, without a body), or   *)
(* an answer whose body is no JSON: a challenge page under status 200 or   *)
(* 503, a plain text under status 200.                                     *)
(***************************************************************************)
RetryFaults == AttemptFaults \cup {"h304", "html200", "html503", "text200"}
Delays == {1, 3}
Backoffs == {1, 2, 3}

InitRetry ==
    /\ zone = <<>>
    /\ nextId = 1
    /\ tf = NoState
    /\ last = NoOp
    /\ cfg \in [retries : 0..MaxWaits, delay : Delays, backoff : Backoffs,
                auth : {Credentials},
                q : {TestServer, [TestServer EXCEPT !.mirror = TRUE]}]
    /\ MatchIdle
    /\ ClientIdle
    /\ Sequential

CallMakeRequest ==
    /\ last.op = "none"
    /\ \E method \in {"GET", "DELETE"}, fq \in SeqsUpTo(RetryFaults, cfg.retries + 1) :
       \E r \in {makeRequest(World(fq), cfg, cfg.q,
                             Request(method, ZoneName, [NoRecord EXCEPT !.id = 1]))} :
          /\ zone' = r.w.zone
          /\ nextId' = r.w.nextId
          /\ last' = [NoOp EXCEPT !.op = "makeRequest", !.err = r.err, !.sent = r.w.sent]
    /\ UNCHANGED <<tf, cfg, mIn, mOut, mu, call, wire, trail, ops>>

NextRetry == CallMakeRequest

SpecRetry == InitRetry /\ [][NextRetry]_vars

\* Attempt j of the call was followed by another attempt.
Retried(j) == j < Len(last.sent)

\* Attempt j left retries to make.
RetriesRemain(j) == last.sent[j].attempt <= cfg.retries

TransportFailure(a) == a.status = 0

C12_WitnessApplicationError ==
    /\ last.op = "makeRequest"
    /\ cfg.retries > 0
    /\ Len(last.sent) = 1
    /\ last.sent[1].status = 200
    /\ last.sent[1].code = 404
    /\ last.err # NoErr

\* The attempt was answered with a body that is no JSON.
Unparseable(a) == a.status # 0 /\ ~a.json /\ a.raw # <<>>

\* C23: an attempt answered with a body that is no JSON (malformed, or a
\* challenge page) is retried while retries remain, and the call reports an
\* error only once they are exhausted.
C23_MalformedRetried ==
    \A j \in DOMAIN last.sent :
        (Unparseable(last.sent[j]) /\ RetriesRemain(j)) => Retried(j)

\* The errors by which a caller tells an unparseable upstream response.
UnparseableErrors == {ErrCloudflare, ErrChallenge}

\* C24: a call whose last answer had a body that is no JSON returns one of
\* the errors that name an unparseable upstream response, not the error of
\* the parser and not a result.
C24_UnparseableDistinct ==
    (last.op = "makeRequest" /\ last.sent # <<>>
        /\ Unparseable(last.sent[Len(last.sent)])) =>
            last.err \in UnparseableErrors

RECURSIVE Pow(_, _)
Pow(b, n) == IF n = 0 THEN 1 ELSE b * Pow(b, n - 1)

\* C13: within a call, the wait before the k-th retry is
\* delay * backoff^(k-1); no wait precedes the first attempt.
C13_BackoffGeometric ==
    \A j \in DOMAIN last.sent :
        last.sent[j].wait = IF j = 1 THEN 0 ELSE cfg.delay * Pow(cfg.backoff, j - 2)

C13_Witness ==
    /\ last.op = "makeRequest"
    /\ Len(last.sent) >= 3
    /\ cfg.backoff > 1
    /\ cfg.delay > 1
    /\ last.sent[3].wait > last.sent[2].wait

(***************************************************************************)
(* Specification SpecConc: goroutines sharing one LWSClient, each making   *)
(* one call of makeRequest, step by step: Lock, the attempts and the       *)
(* sleeps of the retry loop, the return with the deferred Unlock.          *)
(*   call[g] = [pc, retry, delay, exit]: where g is, the locals of its     *)
(*   retry loop and how its call ended; wire logs every attempt and every  *)
(*   sleep with its length.                                                *)
(***************************************************************************)
Goroutines == 1..MaxCalls

\* What hits an attempt: as for the client methods, or an answer with
\* status 200 whose body is no JSON.
ConcFaults == AttemptFaults \cup {"text200"}

\* retry := 0; delay := c.delay
LoopLocals(c) == [retry |-> 0, delay |-> c.delay]

\* The retry branch growing the client's delay instead of the local one.
AfterSleepOnClient(c, st) ==
    [c  |-> [c EXCEPT !.delay = NextDelay(c.delay, c.backoff)],
     st |-> [retry |-> st.retry + 1, delay |-> NextDelay(c.delay, c.backoff)]]

\* The retry branch after its sleep: retry += 1; delay *= c.backoff.  Yields
\* the client and the locals.
AfterSleep(c, st) ==
    [c  |-> c,
     st |-> [retry |-> st.retry + 1, delay |-> NextDelay(st.delay, c.backoff)]]

\* The path on which makeRequest returns after its last attempt.
ExitOf(att) ==
    IF att.err THEN "transport"
    ELSE IF ~att.json THEN "parse"
    ELSE IF att.status >= 400 \/ att.code # 200 THEN "api"
    ELSE "success"

\* Lock with the mutual exclusion left out.
LockAnyway(g) == TRUE

\* c.mu.Lock() returns for g once no goroutine holds the mutex.
CanLock(g) == mu = Unlocked

InitConc ==
    /\ zone = <<>>
    /\ nextId = 1
    /\ tf = NoState
    /\ last = NoOp
    /\ cfg \in [retries : 0..MaxRetries, delay : {1}, backoff : {2}, auth : {Credentials},
                q : {TestServer}]
    /\ MatchIdle
    /\ mu = Unlocked
    /\ call = [g \in Goroutines |-> [pc |-> "start", retry |-> 0, delay |-> 0,
                                      exit |-> "none"]]
    /\ wire = <<>>
    /\ Sequential

\* makeRequest entered: the mutex is taken, the loop's locals are set.
Lock(g) ==
    /\ call[g].pc = "start"
    /\ CanLock(g)
    /\ mu' = g
    /\ call' = [call EXCEPT ![g].pc = "attempt", ![g].retry = LoopLocals(cfg).retry,
                            ![g].delay = LoopLocals(cfg).delay]
    /\ UNCHANGED <<zone, nextId, tf, last, cfg, mIn, mOut, wire, trail, ops>>

\* One c.client.Do(req) of a fetch of the zone, which gets through or meets
\* a fault.
Attempt(g) ==
    /\ call[g].pc = "attempt"
    /\ \E fault \in ConcFaults :
       \E att \in {Do(World(<<>>), cfg.q, Request("GET", ZoneName, NoRecord), fault, FALSE)} :
          /\ wire' = Append(wire, [g |-> g, kind |-> "attempt", n |-> call[g].retry + 1,
                                   fault |-> fault, delay |-> 0])
          /\ call' = [call EXCEPT
                          ![g].pc = IF ~AttemptSucceeded(att)
                                       /\ RetryAllowed(call[g].retry, cfg.retries)
                                    THEN "sleep" ELSE "respond",
                          ![g].exit = ExitOf(att)]
    /\ UNCHANGED <<zone, nextId, tf, last, cfg, mIn, mOut, mu, trail, ops>>

\* time.Sleep(delay); retry += 1; delay *= c.backoff.
Sleep(g) ==
    /\ call[g].pc = "sleep"
    /\ wire' = Append(wire, [g |-> g, kind |-> "wait", n |-> call[g].retry + 1,
                             fault |-> "pass", delay |-> call[g].delay])
    /\ \E r \in {AfterSleep(cfg, [retry |-> call[g].retry, delay |-> call[g].delay])} :
          /\ cfg' = r.c
          /\ call' = [call EXCEPT ![g].pc = "attempt", ![g].retry = r.st.retry,
                                  ![g].delay = r.st.delay]
    /\ UNCHANGED <<zone, nextId, tf, last, mIn, mOut, mu, trail, ops>>

\* The return with the mutex kept.
ReturnLocked(g) ==
    /\ call[g].pc = "respond"
    /\ call' = [call EXCEPT ![g].pc = "done"]
    /\ UNCHANGED <<zone, nextId, tf, last, cfg, mIn, mOut, wire, mu, trail, ops>>

\* makeRequest returns: the deferred Unlock runs.
Return(g) ==
    /\ call[g].pc = "respond"
    /\ mu' = Unlocked
    /\ call' = [call EXCEPT ![g].pc = "done"]
    /\ UNCHANGED <<zone, nextId, tf, last, cfg, mIn, mOut, wire, trail, ops>>

NextConc == \E g \in Goroutines : Lock(g) \/ Attempt(g) \/ Sleep(g) \/ Return(g)

SpecConc == InitConc /\ [][NextConc]_vars

\* The same under fair scheduling: a goroutine that can take a step of its
\* call takes it (every HTTP attempt returns, every sleep ends), and one that
\* can take the free mutex does.
SpecConcFair ==
    SpecConc /\ \A g \in Goroutines :
                    WF_vars(Lock(g)) /\ WF_vars(Attempt(g) \/ Sleep(g) \/ Return(g))

\* g's call is between taking the mutex and its return.
InCall(g) == call[g].pc \in {"attempt", "sleep", "respond"}

\* C10: the calls of one client instance exclude one another: at most one
\* call is between its first attempt and its return, and on the wire no
\* attempt or wait of one call lies between two attempts of another.
C10_CallsExclusive ==
    /\ \A g, h \in Goroutines : InCall(g) /\ InCall(h) => g = h
    /\ \A g \in Goroutines : InCall(g) => mu = g
    /\ \A i, j, k \in DOMAIN wire :
          i < j /\ j < k /\ wire[i].g = wire[k].g => wire[j].g = wire[i].g

\* C10 witness: one call has gone through a failed attempt, a wait and
\* another attempt and returned; a second goroutine's call follows it.
C10_Witness ==
    /\ Len(wire) >= 4
    /\ wire[1].g = wire[3].g
    /\ wire[2].kind = "wait"
    /\ wire[4].g # wire[1].g
    /\ \E g \in Goroutines : call[g].pc = "done"

\* The entries of the wire that are g's, by position.
WireOf(g) == {i \in DOMAIN wire : wire[i].g = g}

\* On the wire every call starts afresh: its first entry is attempt 1, its
\* attempts are numbered on from there, and its k-th wait lasts the
\* configured delay times backoff^(k-1).
CallsStartAfresh ==
    \A g \in Goroutines : \A i \in WireOf(g) :
        /\ (\A j \in WireOf(g) : i <= j) => (wire[i].kind = "attempt" /\ wire[i].n = 1)
        /\ wire[i].kind = "wait" =>
               wire[i].delay = cfg.delay * Pow(cfg.backoff, wire[i].n - 1)
        /\ wire[i].n <= cfg.retries + 1

\* C25: no step of a call changes the client's configuration, and every
\* call starts with attempt 1 and the configured delay whatever the calls
\* before it went through.
C25_NoStateAcrossCalls == [][cfg' = cfg]_vars /\ []CallsStartAfresh

\* C25 witness: a call that waited and retried has returned, and the call
\* of another goroutine after it has waited the configured delay after its
\* own first attempt.
C25_Witness ==
    \E i, j, k \in DOMAIN wire :
        /\ i < j /\ j < k
        /\ wire[i].kind = "wait"
        /\ wire[j].g # wire[i].g /\ wire[j].kind = "attempt" /\ wire[j].n = 1
        /\ wire[k].g = wire[j].g /\ wire[k].kind = "wait" /\ wire[k].delay = cfg.delay
        /\ call[wire[i].g].pc = "done"

\* The attempts g has made.
AttemptsOf(g) == {i \in WireOf(g) : wire[i].kind = "attempt"}

\* A call that has returned made between 1 and retries+1 attempts and does
\* not hold the mutex.
ReturnedCallsReleased ==
    \A g \in Goroutines :
        call[g].pc = "done" =>
            /\ mu # g
            /\ Cardinality(AttemptsOf(g)) \in 1..(cfg.retries + 1)
            /\ call[g].exit \in {"success", "transport", "api", "parse"}

\* C29: under fair scheduling every call, waiting for the client or
\* holding it, eventually returns, after at most retries+1 attempts and with
\* the mutex released, however its last attempt ended.
C29_CallsQueueAndFinish ==
    /\ \A g \in Goroutines : (call[g].pc # "done") ~> (call[g].pc = "done")
    /\ []ReturnedCallsReleased

\* C29 witness: all calls have returned and the mutex is free; one call
\* ended on a body that is no JSON, another on a transport error after its
\* retries.
C29_Witness ==
    /\ \A g \in Goroutines : call[g].pc = "done"
    /\ mu = Unlocked
    /\ cfg.retries > 0
    /\ \E g, h \in Goroutines :
          /\ call[g].exit = "parse"
          /\ call[h].exit = "transport"
          /\ Cardinality(AttemptsOf(h)) = cfg.retries + 1

(***************************************************************************)
(* Specification SpecPar: two goroutines run one resource operation each,  *)
(* for records of different (name, type), on one client and one zone.      *)
(* LWSClient.mu makes every call of makeRequest one step; between the      *)
(* calls of one handler the other goroutine's calls may come.  ops[g] is   *)
(* the handler's position and locals, its outcome when it is done, and     *)
(* what the same operation leaves when it runs alone on the initial zone   *)
(* under the same faults.  wire logs the calls in the order they are sent. *)
(***************************************************************************)
Workers == {1, 2}

\* The identity of the first goroutine's record, and those the second may
\* have: another name, or the same name with another type.
ParIdentity == [name |-> <<"w">>, type |-> <<"A">>]
ParOthers == {[name |-> <<"m">>, type |-> <<"A">>], [name |-> <<"w">>, type |-> <<"M", "X">>]}

\* One attempt a call, which a transport error ends.
ParConfig ==
    [retries |-> 0, delay |-> 1, backoff |-> 2, auth |-> Credentials, q |-> TestServer]

\* The calls of one handler meet no fault, or a transport error at the
\* first, the second or the third of them.
ParFaults == {<<>>} \cup {Passes(k) \o <<"neterr">> : k \in 0..2}

ParKinds(exists) == IF exists THEN {"Create", "Read", "Update", "Delete"} ELSE {"Create"}

\* The record of identity `who` as another party left it in the zone.
ParRecord(who, id) ==
    [id |-> id, name |-> who.name, type |-> who.type, value |-> <<"9">>, ttl |-> 300]

\* The zone before the operations: which of the two records exist.
ParZone(who, exists) ==
    IF exists[1] /\ exists[2] THEN <<ParRecord(who[1], 1), ParRecord(who[2], 2)>>
    ELSE IF exists[1] THEN <<ParRecord(who[1], 1)>>
    ELSE IF exists[2] THEN <<ParRecord(who[2], 1)>>
    ELSE <<>>

\* The identifiers of the records of identity `who` in a listing.
OwnIds(records, who) ==
    {records[i].id : i \in {j \in DOMAIN records :
                               records[j].name = who.name /\ records[j].type = who.type}}

\* What the operation is given: the plan of a Create, the planned model of
\* an Update to value 1, the tracked record for a Read or a Delete.
ParInput(kind, who, records) ==
    IF kind = "Create"
    THEN [id |-> <<>>, name |-> who.name, type |-> who.type, value |-> <<"1">>, ttl |-> 60,
          zone |-> ZoneName]
    ELSE [id |-> Itoa(Only(OwnIds(records, who))), name |-> who.name, type |-> who.type,
          value |-> IF kind = "Update" THEN <<"1">> ELSE <<"9">>, ttl |-> 300,
          zone |-> ZoneName]

\* The handler of `kind`, whole.
Handle(kind, w, c, q, input) ==
    IF kind = "Create"
    THEN Create(w, c, q, [name |-> input.name, type |-> input.type, value |-> input.value,
                          ttl |-> input.ttl, zone |-> input.zone])
    ELSE IF kind = "Read" THEN Read(w, c, q, input)
    ELSE IF kind = "Update" THEN Update(w, c, q, input)
    ELSE Delete(w, c, q, input)

\* A handler's outcome: what it does to the state, its diagnostics, the
\* model it leaves.
Outcome(r) == [out |-> r.out, path |-> r.path, errors |-> r.errors, data |-> r.data]
NoOutcome == [out |-> "keep", path |-> "none", errors |-> <<>>, data |-> NoData]

\* The operation run alone: its outcome, and whether the identifier it
\* leaves is one of its own record in the zone it leaves.
Alone(kind, who, records, fq) ==
    Only({[res |-> Outcome(r),
           own |-> (r.out = "set" /\ r.errors = <<>>) =>
                       /\ Atoi(r.data.id).ok
                       /\ Atoi(r.data.id).n \in OwnIds(r.w.zone, who)] :
          r \in {Handle(kind, [zone |-> records, nextId |-> Len(records) + 1, fq |-> fq,
                               sent |-> <<>>],
                        ParConfig, ParConfig.q, ParInput(kind, who, records))}})

InitPar ==
    /\ \E other \in ParOthers, exists \in [Workers -> BOOLEAN] :
       LET who == <<ParIdentity, other>>
           records == ParZone(who, exists)
       IN  /\ zone = records
           /\ nextId = Len(records) + 1
           /\ \E kind \in [Workers -> {"Create", "Read", "Update", "Delete"}],
                 fq \in [Workers -> ParFaults] :
                 /\ \A g \in Workers : kind[g] \in ParKinds(exists[g])
                 /\ ops = [g \in Workers |->
                              [kind |-> kind[g], who |-> who[g],
                               input |-> ParInput(kind[g], who[g], records),
                               pc |-> "start", fq |-> fq[g], found |-> NoRecord,
                               posted |-> NoRecord, res |-> NoOutcome,
                               alone |-> Alone(kind[g], who[g], records, fq[g])]]
    /\ tf = NoState
    /\ last = NoOp
    /\ cfg = ParConfig
    /\ MatchIdle
    /\ ClientIdle
    /\ trail = <<>>

\* The remote as goroutine g's next call meets it.
ParWorld(g) == [zone |-> zone, nextId |-> nextId, fq |-> ops[g].fq, sent |-> <<>>]

\* The record Create builds from its trimmed plan.
ParDesired(g) ==
    [id |-> 0, name |-> TrimSpace(ops[g].input.name), type |-> TrimSpace(ops[g].input.type),
     value |-> TrimSpace(ops[g].input.value), ttl |-> ops[g].input.ttl,
     zone |-> TrimSpace(ops[g].input.zone)]

\* Goroutine g's handler moves on with its locals `next`, the remote left
\* as w by the call it made.
Moved(g, w, next, called) ==
    /\ zone' = w.zone
    /\ nextId' = w.nextId
    /\ ops' = [ops EXCEPT ![g] = [next EXCEPT !.fq = w.fq]]
    /\ wire' = IF called
               THEN Append(wire, [g |-> g, kind |-> "attempt", n |-> 1, fault |-> "none",
                                  delay |-> 0])
               ELSE wire
    /\ UNCHANGED <<tf, last, cfg, mIn, mOut, mu, call, trail>>

Called(g, w, next) == Moved(g, w, next, TRUE)

Finished(g, r) == Called(g, r.w, [ops[g] EXCEPT !.pc = "done", !.res = Outcome(r)])

\* Read, Update, Delete: one call of the client each, the handler whole.
ParSingle(g) ==
    /\ ops[g].pc = "start"
    /\ ops[g].kind # "Create"
    /\ \E r \in {Handle(ops[g].kind, ParWorld(g), cfg, cfg.q, ops[g].input)} : Finished(g, r)

\* Create, the initial fetch of the zone and the search of its listing.
ParSearch(g) ==
    /\ ops[g].pc = "start"
    /\ ops[g].kind = "Create"
    /\ LET record == ParDesired(g)
           Hit(r) == CreateSearchMatch(record, r)
       IN  IF IsEmpty(record.name) \/ IsEmpty(record.type) \/ IsEmpty(record.value)
              \/ IsEmpty(record.zone)
           THEN Moved(g, ParWorld(g),
                      [ops[g] EXCEPT !.pc = "done",
                                     !.res = Outcome(Fail(ParWorld(g), ops[g].input,
                                                          "Validation Error", "validation"))],
                      FALSE)
           ELSE \E z \in {GetDNSZone(ParWorld(g), cfg, cfg.q, record.zone)} :
                   IF z.err = NoErr /\ SeqIndex(z.records, Hit) # {}
                   THEN Called(g, z.w, [ops[g] EXCEPT !.pc = "update",
                                                      !.found = FirstRecord(z.records, Hit)])
                   ELSE Called(g, z.w, [ops[g] EXCEPT !.pc = "post"])

\* Create, the record found is updated in place.
ParUpdateExisting(g) ==
    /\ ops[g].pc = "update"
    /\ \E r \in {CreateUpdateExisting(ParWorld(g), cfg, cfg.q, ops[g].input, ParDesired(g),
                                      ops[g].found)} :
          Finished(g, r)

\* Create, CreateDNSRecord's POST.  An error ends the handler, after the
\* conflict handling where the error reads as a conflict (none does here:
\* the remote of this specification refuses no record).
ParPost(g) ==
    /\ ops[g].pc = "post"
    /\ LET record == ParDesired(g)
       IN  \E r \in {makeRequest(ParWorld(g), cfg, cfg.q,
                                 Request("POST", record.zone, [record EXCEPT !.id = 0]))} :
              IF r.err # NoErr
              THEN Finished(g, IF IsConflictError(r.err)
                               THEN CreateConflict(r.w, cfg, cfg.q, ops[g].input, record,
                                                   record.zone)
                               ELSE Fail(r.w, ops[g].input, "Client Error", "create_failed"))
              ELSE Called(g, r.w, [ops[g] EXCEPT !.pc = "find", !.posted = r.data])

\* Create, CreateDNSRecord's lookup of the identifier and what Create makes
\* of its result.
ParFind(g) ==
    /\ ops[g].pc = "find"
    /\ LET record == ParDesired(g)
       IN  \E cr \in {CreateDNSRecordFind(cfg, cfg.q, record,
                                          [w |-> ParWorld(g), data |-> ops[g].posted])} :
              Finished(g, IF cr.err # NoErr
                          THEN IF IsConflictError(cr.err)
                               THEN CreateConflict(cr.w, cfg, cfg.q, ops[g].input, record,
                                                   record.zone)
                               ELSE Fail(cr.w, ops[g].input, "Client Error", "create_failed")
                          ELSE IF cr.rec.id <= 0
                               THEN Fail(cr.w, ops[g].input, "Invalid Created Record ID",
                                         "created_invalid_id")
                               ELSE Result(cr.w, "set",
                                           FromRecord(ops[g].input, cr.rec, record.zone),
                                           <<>>, <<>>, "created_new"))

NextPar ==
    \E g \in Workers :
        ParSingle(g) \/ ParSearch(g) \/ ParUpdateExisting(g) \/ ParPost(g) \/ ParFind(g)

SpecPar == InitPar /\ [][NextPar]_vars

\* C28: an operation that ran next to another one, for a record of another
\* (name, type), ends as it ends alone on the zone both started from: the
\* same change to the state, the same diagnostics, the same name, type,
\* value, ttl and zone, and as identifier one of its own record in the zone.
C28_NoInterference ==
    \A g \in Workers :
        ops[g].pc = "done" =>
            /\ ops[g].res.out = ops[g].alone.res.out
            /\ ops[g].res.path = ops[g].alone.res.path
            /\ ops[g].res.errors = ops[g].alone.res.errors
            /\ [ops[g].res.data EXCEPT !.id = <<>>] = [ops[g].alone.res.data EXCEPT !.id = <<>>]
            /\ (ops[g].res.out = "set" /\ ops[g].res.errors = <<>>) =>
                   /\ ops[g].alone.own
                   /\ Atoi(ops[g].res.data.id).ok
                   /\ Atoi(ops[g].res.data.id).n \in OwnIds(zone, ops[g].who)

\* C28 witness: two creates of the same name with different types, each
\* sending a call between two calls of the other; both end with a tracked
\* record, under different identifiers.
C28_Witness ==
    /\ \A g \in Workers : /\ ops[g].pc = "done"
                          /\ ops[g].kind = "Create"
                          /\ ops[g].res.out = "set"
                          /\ ops[g].res.path = "created_new"
    /\ ops[1].who.name = ops[2].who.name
    /\ ops[1].res.data.id # ops[2].res.data.id
    /\ \E i, j, k, l \in DOMAIN wire :
          /\ i < j /\ j < k /\ k < l
          /\ wire[i].g = wire[k].g
          /\ wire[j].g = wire[l].g
          /\ wire[i].g # wire[j].g

(***************************************************************************)
(* Specification SpecTwin: two goroutines run one Create each for the same *)
(* (zone, name, type), on one client and an empty zone, against a remote   *)
(* that refuses a duplicate with the conflict message.  No fault hits a    *)
(* call.  The steps are the calls of the client, as in SpecPar; Create's   *)
(* handling of a refused create call is in steps here too.                 *)
(***************************************************************************)
TwinRemotes ==
    {[TestServer EXCEPT !.rejectDup = TRUE, !.mirror = m] : m \in BOOLEAN}

\* The two plans: the same name, typed alike or with stray case and blanks.
TwinPlans ==
    {[id |-> <<>>, name |-> n, type |-> <<"A">>, value |-> v, ttl |-> 60, zone |-> ZoneName] :
        n \in {<<"w">>, <<"W", " ">>}, v \in {<<"1">>, <<"2">>}}

InitTwin ==
    /\ zone = <<>>
    /\ nextId = 1
    /\ \E input \in [Workers -> TwinPlans] :
          ops = [g \in Workers |->
                    [kind |-> "Create", who |-> ParIdentity, input |-> input[g],
                     pc |-> "start", fq |-> <<>>, found |-> NoRecord, posted |-> NoRecord,
                     res |-> NoOutcome, alone |-> [res |-> NoOutcome, own |-> TRUE]]]
    /\ tf = NoState
    /\ last = NoOp
    /\ cfg \in [retries : {0, MaxRetries}, delay : {1}, backoff : {2}, auth : {Credentials},
                q : TwinRemotes]
    /\ MatchIdle
    /\ ClientIdle
    /\ trail = <<>>

\* Create, CreateDNSRecord's POST; an error that reads as a conflict leads
\* to the second fetch of the zone, any other ends the handler.
TwinPost(g) ==
    /\ ops[g].pc = "post"
    /\ LET record == ParDesired(g)
       IN  \E r \in {makeRequest(ParWorld(g), cfg, cfg.q,
                                 Request("POST", record.zone, [record EXCEPT !.id = 0]))} :
              IF r.err = NoErr
              THEN Called(g, r.w, [ops[g] EXCEPT !.pc = "find", !.posted = r.data])
              ELSE IF IsConflictError(r.err)
              THEN Called(g, r.w, [ops[g] EXCEPT !.pc = "refetch"])
              ELSE Finished(g, Fail(r.w, ops[g].input, "Client Error", "create_failed"))

\* Create, the zone fetched and searched again after the conflict.
TwinRefetch(g) ==
    /\ ops[g].pc = "refetch"
    /\ LET record == ParDesired(g)
           Hit(r) == FallbackSearchMatch(record, r)
       IN  \E z \in {GetDNSZone(ParWorld(g), cfg, cfg.q, record.zone)} :
              IF z.err # NoErr \/ SeqIndex(z.records, Hit) = {}
              THEN Finished(g, Fail(z.w, ops[g].input, "Client Error",
                                    "create_conflict_unresolved"))
              ELSE IF FirstRecord(z.records, Hit).value # record.value
              THEN Called(g, z.w, [ops[g] EXCEPT !.pc = "adopt",
                                                 !.found = FirstRecord(z.records, Hit)])
              ELSE Finished(g, CreateAdoptExisting(z.w, cfg, cfg.q, ops[g].input, record,
                                                   record.zone, FirstRecord(z.records, Hit)))

\* Create, the record found after the conflict is updated and adopted.
TwinAdopt(g) ==
    /\ ops[g].pc = "adopt"
    /\ \E r \in {CreateAdoptExisting(ParWorld(g), cfg, cfg.q, ops[g].input, ParDesired(g),
                                     ParDesired(g).zone, ops[g].found)} :
          Finished(g, r)

NextTwin ==
    \E g \in Workers :
        \/ ParSearch(g)
        \/ ParUpdateExisting(g)
        \/ TwinPost(g)
        \/ ParFind(g)
        \/ TwinRefetch(g)
        \/ TwinAdopt(g)

SpecTwin == InitTwin /\ [][NextTwin]_vars

TwinsDone == \A g \in Workers : ops[g].pc = "done"

\* C36: two concurrent Creates for the same (zone, name, type) against a
\* remote that refuses duplicates with the conflict message: however their
\* calls interleave, the zone ends with exactly one record of that identity
\* and both Creates end without an error, holding that record's identifier.
C36_TwinCreatesConverge ==
    TwinsDone =>
        /\ Cardinality(Named(zone, ops[1].input)) = 1
        /\ \A g \in Workers :
              /\ ops[g].res.out = "set"
              /\ ops[g].res.errors = <<>>
              /\ \A i \in Named(zone, ops[1].input) : ops[g].res.data.id = Itoa(zone[i].id)

(***************************************************************************)
(* LWSProvider.Configure.  An attribute of the provider block is null      *)
(* (omitted), unknown or known: [state, v], v being what ValueString or    *)
(* ValueInt64 returns ("" and 0 where the attribute is not known).  env is *)
(* the environment: LWS_LOGIN and LWS_API_KEY.                             *)
(***************************************************************************)
Null(zero) == [state |-> "null", v |-> zero]
Unknown(zero) == [state |-> "unknown", v |-> zero]
Known(v) == [state |-> "known", v |-> v]

IsNull(attr) == attr.state = "null"
IsUnknown(attr) == attr.state = "unknown"

NoClient ==
    [built |-> FALSE, login |-> <<>>, apiKey |-> <<>>, timeout |-> 0, retries |-> 0,
     delay |-> 0, backoff |-> 0]

\* A multiplier of zero let through.
ValidBackoffNonNegative(backoff) == backoff >= 0

\* Configure: backoff < 1 is an error.
ValidBackoff(backoff) == backoff >= 1

\* Configure(data, env): [errors, client]; errors are the titles of the
\* diagnostics in the order they are added.
Configure(data, env) ==
    LET unknowns ==
            (IF IsUnknown(data.login) THEN <<"Unknown LWS API Login">> ELSE <<>>)
            \o (IF IsUnknown(data.apiKey) THEN <<"Unknown LWS API Key">> ELSE <<>>)
        login   == IF ~IsNull(data.login) THEN data.login.v ELSE env.login
        apiKey  == IF ~IsNull(data.apiKey) THEN data.apiKey.v ELSE env.apiKey
        timeout == IF ~IsNull(data.timeout) THEN data.timeout.v ELSE 30
        retries == IF ~IsNull(data.retries) THEN data.retries.v ELSE 3
        delay   == IF ~IsNull(data.delay) THEN data.delay.v ELSE 15
        backoff == IF ~IsNull(data.backoff) THEN data.backoff.v ELSE 2
        errors ==
            (IF login = <<>> THEN <<"Missing LWS API Login">> ELSE <<>>)
            \o (IF apiKey = <<>> THEN <<"Missing LWS API Key">> ELSE <<>>)
            \o (IF timeout <= 0 THEN <<"Invalid timeout value">> ELSE <<>>)
            \o (IF retries < 0 THEN <<"Invalid retries value">> ELSE <<>>)
            \o (IF delay < 0 THEN <<"Invalid delay value">> ELSE <<>>)
            \o (IF ~ValidBackoff(backoff) THEN <<"Invalid backoff value">> ELSE <<>>)
    IN  IF unknowns # <<>> THEN [errors |-> unknowns, client |-> NoClient]
        ELSE IF errors # <<>> THEN [errors |-> errors, client |-> NoClient]
        ELSE [errors |-> <<>>,
              client |-> [built |-> TRUE, login |-> login, apiKey |-> apiKey,
                          timeout |-> timeout, retries |-> retries, delay |-> delay,
                          backoff |-> backoff]]

(***************************************************************************)
(* Specification SpecConfigure: the provider is configured from a provider *)
(* block and an environment; the client it built, if any, is then used for *)
(* a fetch of the zone.                                                    *)
(***************************************************************************)
StringAttrs == {Null(<<>>), Unknown(<<>>), Known(<<>>), Known(<<"u">>)}
IntAttrs(S) == {Null(0)} \cup {Known(v) : v \in S}

ProviderBlocks ==
    [login : StringAttrs, apiKey : StringAttrs,
     timeout : IntAttrs({-1, 0, 5}),
     retries : IntAttrs({-1, 0, MaxRetries}) \cup {Unknown(0)},
     delay : IntAttrs({-1, 0, 1}),
     backoff : IntAttrs({0, 1, 2}) \cup {Unknown(0)}]

Environments == [login : {<<>>, <<"e">>}, apiKey : {<<>>, <<"k">>}]

InitConfigure ==
    /\ Idle
    /\ ClientIdle
    /\ Sequential
    /\ mIn \in [data : ProviderBlocks, env : Environments]
    /\ mOut = NoVerdict

\* Configure runs; the client built becomes the resources' client.
ConfigureProvider ==
    /\ ~mOut.done
    /\ \E r \in {Configure(mIn.data, mIn.env)} :
          /\ mOut' = [done |-> TRUE, errors |-> r.errors, client |-> r.client]
          /\ cfg' = IF r.client.built
                    THEN [retries |-> r.client.retries, delay |-> r.client.delay,
                          backoff |-> r.client.backoff,
                          auth |-> [Credentials EXCEPT !.login = r.client.login,
                                                       !.apiKey = r.client.apiKey],
                          q |-> TestServer]
                    ELSE cfg
    /\ UNCHANGED <<zone, nextId, tf, last, mIn, mu, call, wire, trail, ops>>

\* A resource uses the client it was handed.
UseClient ==
    /\ mOut.done
    /\ mOut.client.built
    /\ last.op = "none"
    /\ \E fq \in {<<>>, <<"neterr">>} :
       \E r \in {GetDNSZone(World(fq), cfg, cfg.q, ZoneName)} :
          /\ zone' = r.w.zone
          /\ nextId' = r.w.nextId
          /\ last' = [NoOp EXCEPT !.op = "GetDNSZone", !.pre = zone, !.err = r.err,
                                  !.sent = r.w.sent]
    /\ UNCHANGED <<tf, cfg, mIn, mOut, mu, call, wire, trail, ops>>

NextConfigure == ConfigureProvider \/ UseClient

SpecConfigure == InitConfigure /\ [][NextConfigure]_vars

\* What the provider block and the environment resolve to: the block's
\* value where it gives one, else the environment's or the default.
Resolved ==
    [login   |-> IF IsNull(mIn.data.login) THEN mIn.env.login ELSE mIn.data.login.v,
     apiKey  |-> IF IsNull(mIn.data.apiKey) THEN mIn.env.apiKey ELSE mIn.data.apiKey.v,
     timeout |-> IF IsNull(mIn.data.timeout) THEN 30 ELSE mIn.data.timeout.v,
     retries |-> IF IsNull(mIn.data.retries) THEN 3 ELSE mIn.data.retries.v,
     delay   |-> IF IsNull(mIn.data.delay) THEN 15 ELSE mIn.data.delay.v,
     backoff |-> IF IsNull(mIn.data.backoff) THEN 2 ELSE mIn.data.backoff.v]

Acceptable ==
    /\ Resolved.login # <<>>
    /\ Resolved.apiKey # <<>>
    /\ Resolved.timeout > 0
    /\ Resolved.retries >= 0
    /\ Resolved.delay >= 0
    /\ Resolved.backoff >= 1

\* C39: Configure builds a client only where login and api key are not
\* empty, timeout > 0, retries >= 0, delay >= 0 and backoff >= 1, omitted
\* values being 30, 3, 15 and 2 and a value of the provider block going
\* before the environment's; where a constraint is violated it reports an
\* error and hands out no client; the client a resource uses has
\* retries >= 0 and backoff >= 1.
C39_ConfigureValidates ==
    /\ mOut.done =>
          /\ mOut.client.built => Acceptable
          /\ mOut.client.built =>
                 /\ mOut.errors = <<>>
                 /\ [f \in DOMAIN Resolved |-> mOut.client[f]] = Resolved
          /\ ~Acceptable => mOut.errors # <<>> /\ mOut.client = NoClient
    /\ last.op # "none" => cfg.retries >= 0 /\ cfg.backoff >= 1

\* C39 witnesses: a client built from defaults and the environment under an
\* overriding login, and used; and a block refused for its backoff alone.
C39_Witness ==
    /\ last.op = "GetDNSZone"
    /\ mIn.data.login = Known(<<"u">>)
    /\ mIn.env.login = <<"e">>
    /\ IsNull(mIn.data.apiKey)
    /\ IsNull(mIn.data.retries) /\ IsNull(mIn.data.backoff)
    /\ mOut.client.login = <<"u">>
    /\ cfg.retries = 3 /\ cfg.backoff = 2

C39_WitnessRefused ==
    /\ mOut.done
    /\ mIn.data.backoff = Known(0)
    /\ mOut.errors = <<"Invalid backoff value">>
    /\ ~mOut.client.built

(***************************************************************************)
(* Specification SpecMatch: the comparisons applied to bounded inputs.     *)
(***************************************************************************)
NameAlphabet == {"w", "W", " "}
TypeAlphabet == {"a", "A", " "}
MatchNames == SeqsUpTo(NameAlphabet, MaxNameLen)
MatchTypes == SeqsUpTo(TypeAlphabet, MaxTypeLen)
MatchPairs == [name : MatchNames, type : MatchTypes]

Verdicts(a, b, base, perturbed) ==
    [done     |-> TRUE,
     perturbed |-> perturbed,
     base     |-> base,
     ab       |-> IdentityMatch(a, b),
     ba       |-> IdentityMatch(b, a),
     aa       |-> IdentityMatch(a, a),
     create   |-> CreateSearchMatch(a, b),
     fallback |-> FallbackSearchMatch(a, b),
     read     |-> ReadSearchMatch(a, b),
     find     |-> FindByNameMatch(a, b)]

\* A change of letter case at one position.
SwapCase(s, i) ==
    [s EXCEPT ![i] = IF ToUpperChar(s[i]) = s[i] THEN ToLowerChar(s[i])
                     ELSE ToUpperChar(s[i])]

\* The strings one case change or one leading/trailing blank away from s.
Variants(s, maxLen) ==
    {SwapCase(s, i) : i \in DOMAIN s}
        \cup (IF Len(s) < maxLen THEN {<<" ">> \o s, s \o <<" ">>} ELSE {})
        \cup {TrimSpace(s)}
        \cup (IF s # <<>> /\ Head(s) = " " THEN {Tail(s)} ELSE {})
        \cup (IF s # <<>> /\ s[Len(s)] = " " THEN {SubSeq(s, 1, Len(s) - 1)} ELSE {})

PairVariants(p) ==
    {[p EXCEPT !.name = n] : n \in Variants(p.name, MaxNameLen)}
        \cup {[p EXCEPT !.type = t] : t \in Variants(p.type, MaxTypeLen)}

InitMatch ==
    /\ Idle
    /\ ClientIdle
    /\ Sequential
    /\ mIn \in [a : MatchPairs, b : MatchPairs]
    /\ mOut = NoVerdict

\* The comparisons are applied to the pair as drawn.
Compare ==
    /\ ~mOut.done
    /\ mOut' = Verdicts(mIn.a, mIn.b, IdentityMatch(mIn.a, mIn.b), FALSE)
    /\ UNCHANGED <<zone, nextId, tf, last, cfg, mIn, mu, call, wire, trail, ops>>

\* One side's name or type changes case or whitespace; the comparisons are
\* applied again and the verdict before the change is kept in `base`.  Every
\* pair is an initial one, so one change from each pair covers every chain
\* of changes.
PerturbA ==
    /\ mOut.done
    /\ ~mOut.perturbed
    /\ \E a2 \in PairVariants(mIn.a) :
          /\ mIn' = [mIn EXCEPT !.a = a2]
          /\ mOut' = Verdicts(a2, mIn.b, mOut.ab, TRUE)
    /\ UNCHANGED <<zone, nextId, tf, last, cfg, mu, call, wire, trail, ops>>

PerturbB ==
    /\ mOut.done
    /\ ~mOut.perturbed
    /\ \E b2 \in PairVariants(mIn.b) :
          /\ mIn' = [mIn EXCEPT !.b = b2]
          /\ mOut' = Verdicts(mIn.a, b2, mOut.ab, TRUE)
    /\ UNCHANGED <<zone, nextId, tf, last, cfg, mu, call, wire, trail, ops>>

NextMatch == Compare \/ PerturbA \/ PerturbB

SpecMatch == InitMatch /\ [][NextMatch]_vars

\* C8: the identity match is reflexive and symmetric, and a change of letter
\* case or of leading/trailing whitespace in either argument's name or type
\* leaves its verdict as it was.
C8_MatcherLaws ==
    mOut.done => /\ mOut.aa
                 /\ mOut.ab = mOut.ba
                 /\ mOut.ab = mOut.base

\* C8 witness: a pair that matches only through normalization, after a
\* perturbation that kept the verdict.
C8_Witness ==
    /\ mOut.done
    /\ mOut.perturbed
    /\ mOut.ab
    /\ mOut.base
    /\ mIn.a # mIn.b
    /\ mIn.a.name # <<>>
    /\ TrimSpace(mIn.a.name) # mIn.a.name

\* C9: every place that tests identity decides exactly as the identity
\* matcher does: Create's initial search, Create's fallback search, Read's
\* drift-recovery search and the client's identifier discovery after create.
C9_SameMatcherEverywhere ==
    mOut.done => /\ mOut.create = mOut.ab
                 /\ mOut.fallback = mOut.ab
                 /\ mOut.read = mOut.ab
                 /\ mOut.find = mOut.ab

====
